---- MODULE Spec2Model ----
(***************************************************************************)
(* Model of the test-case generation service                               *)
(* (backend/app/services/testcase_service.py): the batch coordinator       *)
(* (start_batch, run_all, _run_one_feature, retry_batch_feature,           *)
(* _update_batch_status, delete_test_case) and the layered generation      *)
(* pipeline (generate_ai_test_cases, _generate_layer, _extract_scenarios,  *)
(* _expand_scenarios_to_tests, the final dedup passes).                    *)
(*                                                                         *)
(* Scheduling is asyncio's: one step of the model is what a task runs      *)
(* between two suspension points (a provider call, an embeddings call,     *)
(* asyncio.sleep, or the first scheduling of a created task).              *)
(***************************************************************************)
EXTENDS Integers, Sequences, FiniteSets, TLC

VARIABLES
    store,          \* TestCaseService._store: the test cases held, keyed by id
    batch_store,    \* TestCaseService._batch_store: batch id (index) -> _BatchState
    run_all,        \* per batch: position of the run_all task start_batch created
    tasks,          \* every task running (or done with) a generation, by task id
    openai_api_key, \* settings.openai_api_key is set (embeddings are available)
    retries,        \* number of retry_batch_feature calls made so far
    deletes,        \* number of delete_test_case calls made so far
    _current_model_id, \* TestCaseService._current_model_id (None until first set)
    call            \* the call that returned in the last step, with what it returned

vars == <<store, batch_store, run_all, tasks, openai_api_key, retries, deletes,
          _current_model_id, call>>

----------------------------------------------------------------------------
(* Bounds of the model. *)

MaxBatches == 2
MaxFeatures == 2
MaxTotalFeatures == 2
MaxRetries == 1
MaxDeletes == 1
MaxScenarios == 9

None == "None"

(* The last step was not a call whose return value is recorded. *)
NoCall == [op |-> "none"]

(* Inputs the callers draw from. *)
BatchProviders == {None, "bogus"}
BatchModelIds == {None}
BatchLevels == {"low"}
RetryProviders == {None, "ollama", "bogus"}
SingleProviders == {None, "bogus"}
SingleModelIds == {None}
SingleLevels == {"low", "medium", "high", "comprehensive"}

----------------------------------------------------------------------------
(* Configuration tables. *)

(* The keys of LAYER_FOCUS with the head of each focus text. *)
LAYER_FOCUS ==
    [core |-> "Fundamental workflows, happy paths, and required validations.",
     validation |-> "Field validation, required inputs, format errors",
     negative |-> "Invalid inputs, error paths, rejection cases, and user mistakes.",
     boundary |-> "Boundary values, unusual inputs, limits, and edge values.",
     state |-> "State transitions, multi-step flows, and state-dependent behavior.",
     security |-> "Security-related scenarios",
     destructive |-> "Data corruption, conflicting operations, resilience failures"]

(* Mutant: the high level leaves out the negative dimension. *)
COVERAGE_LEVEL_LAYERS_HighSkipsNegative(level) ==
    CASE level = "low" -> <<"core">>
      [] level = "medium" -> <<"core", "validation", "negative">>
      [] level = "high" -> <<"core", "validation", "boundary", "state">>
      [] level = "comprehensive" ->
            <<"core", "validation", "negative", "boundary", "state",
              "security", "destructive">>
      [] OTHER -> <<"core", "validation", "negative">>

COVERAGE_LEVEL_LAYERS(level) ==
    CASE level = "low" -> <<"core">>
      [] level = "medium" -> <<"core", "validation", "negative">>
      [] level = "high" -> <<"core", "validation", "negative", "boundary", "state">>
      [] level = "comprehensive" ->
            <<"core", "validation", "negative", "boundary", "state",
              "security", "destructive">>
      [] OTHER -> <<"core", "validation", "negative">>

(* The keys of MIN_SCENARIOS_PER_LAYER. *)
FloorLayers ==
    {"core", "validation", "negative", "boundary", "state", "security", "destructive"}

MIN_SCENARIOS_PER_LAYER(layer) ==
    CASE layer = "core" -> 5
      [] layer = "validation" -> 6
      [] layer = "negative" -> 6
      [] layer = "boundary" -> 8
      [] layer = "state" -> 6
      [] layer = "security" -> 6
      [] layer = "destructive" -> 6

model_id_to_provider(model_id) ==
    CASE model_id = "gpt-4o-mini" -> "openai"
      [] model_id = "gpt-4o" -> "openai"
      [] model_id = "gemini-2.5-flash" -> "gemini"
      [] model_id = "llama-3.3-70b-versatile" -> "groq"
      [] model_id = "llama3.2:3b" -> "ollama"
      [] OTHER -> None

default_llm_provider == "ollama"

(* get_provider: the provider built for a name, or the ValueError raised.  *)
(* Only the OpenAI key is a variable of the model; the Gemini and Groq     *)
(* keys are taken as not configured.                                       *)
get_provider(provider_name, key) ==
    LET name == IF provider_name = None THEN default_llm_provider ELSE provider_name
    IN CASE name = "ollama" -> [ok |-> TRUE, provider |-> "ollama", error |-> None]
         [] name = "openai" ->
              IF key THEN [ok |-> TRUE, provider |-> "openai", error |-> None]
              ELSE [ok |-> FALSE, provider |-> None,
                    error |-> "OpenAI API key is required"]
         [] name \in {"gemini", "groq"} ->
              [ok |-> FALSE, provider |-> None, error |-> "API key is required"]
         [] OTHER -> [ok |-> FALSE, provider |-> None,
                      error |-> "Unsupported LLM provider"]

max_attempts == 3
base_delay_tenths == 10

(* Mutant: the delay doubles, as the Ollama provider's own backoff does. *)
RetryDelay_Doubling(attempt) == base_delay_tenths * (2 ^ (attempt - 1))

(* base_delay_seconds * 1.5 ** (attempt - 1), in tenths of a second. *)
RetryDelay(attempt) == (base_delay_tenths * (3 ^ (attempt - 1))) \div (2 ^ (attempt - 1))

----------------------------------------------------------------------------
(* Test cases.  A title is a sequence of characters; `detail` stands for   *)
(* len(" ".join(test_steps)) + len(expected_result).                       *)

Lower(c) == CASE c = "A" -> "a" [] c = "B" -> "b" [] OTHER -> c

IsSpace(c) == c \in {" ", "\t"}

RECURSIVE LStrip(_)
LStrip(s) == IF s # <<>> /\ IsSpace(Head(s)) THEN LStrip(Tail(s)) ELSE s

RECURSIVE RStrip(_)
RStrip(s) ==
    IF s # <<>> /\ IsSpace(s[Len(s)]) THEN RStrip(SubSeq(s, 1, Len(s) - 1)) ELSE s

RECURSIVE CollapseSpaces(_)
CollapseSpaces(s) ==
    IF s = <<>> THEN <<>>
    ELSE IF IsSpace(Head(s)) THEN <<" ">> \o CollapseSpaces(LStrip(s))
    ELSE <<Head(s)>> \o CollapseSpaces(Tail(s))

(* re.sub(r"\s+", " ", title.lower().strip()) *)
normalize_title(title) ==
    CollapseSpaces(RStrip(LStrip([i \in 1..Len(title) |-> Lower(title[i])])))

(* Python's `a in b` on strings. *)
IsSubstring(a, b) ==
    \E i \in 0..(Len(b) - Len(a)) : SubSeq(b, i + 1, i + Len(a)) = a

TitlesMatch(key, existing_key) ==
    key = existing_key \/ IsSubstring(key, existing_key) \/ IsSubstring(existing_key, key)

(* Index of the first element of result whose title matches tc's, or 0. *)
FirstMatch(result, tc) ==
    LET key == normalize_title(tc.test_scenario)
        hits == {i \in 1..Len(result) :
                    TitlesMatch(key, normalize_title(result[i].test_scenario))}
    IN IF hits = {} THEN 0 ELSE CHOOSE i \in hits : \A j \in hits : i <= j

RECURSIVE RemoveLoop(_, _, _)
RemoveLoop(cases, k, result) ==
    IF k > Len(cases) THEN result
    ELSE LET tc == cases[k]
             i == FirstMatch(result, tc)
         IN IF i = 0 THEN RemoveLoop(cases, k + 1, Append(result, tc))
            ELSE IF tc.detail > result[i].detail
                 THEN RemoveLoop(cases, k + 1, [result EXCEPT ![i] = tc])
                 ELSE RemoveLoop(cases, k + 1, result)

remove_near_duplicate_titles(cases) ==
    IF Len(cases) <= 1 THEN cases ELSE RemoveLoop(cases, 1, <<>>)

(* deduplicate_indices_by_embeddings on n texts; sim is the set of index    *)
(* pairs {i, j} whose embeddings have cosine similarity >= the threshold.   *)
RECURSIVE KeepLoop(_, _, _, _)
KeepLoop(j, n, keep, sim) ==
    IF j > n THEN keep
    ELSE IF \E i \in 1..Len(keep) : {keep[i], j} \in sim
         THEN KeepLoop(j + 1, n, keep, sim)
         ELSE KeepLoop(j + 1, n, Append(keep, j), sim)

(* embeddings.ok is false when get_embeddings returned None. *)
deduplicate_indices_by_embeddings(n, embeddings) ==
    IF n <= 1 \/ ~embeddings.ok THEN [i \in 1..n |-> i]
    ELSE KeepLoop(1, n, <<>>, embeddings.sim)

deduplicate_by_embeddings(cases, embeddings) ==
    IF Len(cases) <= 1 THEN cases
    ELSE LET keep_indices == deduplicate_indices_by_embeddings(Len(cases), embeddings)
         IN IF Len(keep_indices) = Len(cases) THEN cases
            ELSE [i \in 1..Len(keep_indices) |-> cases[keep_indices[i]]]

(* What the provider and the embeddings backend may answer. *)
RawCaseLists ==
    { <<[test_scenario |-> <<"A">>, detail |-> 1]>>,
      <<[test_scenario |-> <<"a", "b">>, detail |-> 2],
        [test_scenario |-> <<"a">>, detail |-> 1]>> }

Responses(counts, case_lists) ==
    {[kind |-> "raise", n |-> 0, cases |-> <<>>],
     [kind |-> "malformed", n |-> 0, cases |-> <<>>]}
    \cup {[kind |-> "scenarios", n |-> n, cases |-> <<>>] : n \in counts}
    \cup {[kind |-> "test_cases", n |-> 0, cases |-> c] : c \in case_lists}

ProviderResponses == Responses(0..MaxScenarios, RawCaseLists)

(* The answers drawn on in the batch runs: a scenario list at the core      *)
(* floor; no case, or two cases with unrelated titles.                      *)
BatchCaseLists ==
    { <<>>,
      <<[test_scenario |-> <<"a">>, detail |-> 1],
        [test_scenario |-> <<"b">>, detail |-> 1]>> }

BatchResponses == Responses({5}, BatchCaseLists)

BatchSimProfiles == {"none"}

AllPairs(n) == {{i, j} : i, j \in 1..n} \ {{i} : i \in 1..n}

(* The pairs at or above the threshold among n embeddings: none, every     *)
(* pair, the first and the last only, or the last with every earlier one.   *)
SimilarPairs(profile, n) ==
    CASE profile = "none" -> {}
      [] profile = "all" -> AllPairs(n)
      [] profile = "ends" -> {{1, n}}
      [] profile = "last" -> {{i, n} : i \in 1..(n - 1)}

SimProfiles == {"none", "all", "ends", "last"}

EmbeddingResponses(n, profiles) ==
    {[ok |-> FALSE, sim |-> {}]}
    \cup {[ok |-> TRUE, sim |-> SimilarPairs(p, n)] : p \in profiles}

(* How the lengths of the scenario texts compare: all the same, or each     *)
(* later text shorter than every earlier one.                               *)
LengthProfiles == {"same", "decreasing"}

----------------------------------------------------------------------------
(* Scenario dedup (utils/embeddings.py) on scenario counts.                 *)

RemoveAt(keep, i) == [k \in 1..(Len(keep) - 1) |-> IF k < i THEN keep[k] ELSE keep[k + 1]]

FirstSimilar(keep, j, sim) ==
    LET hits == {i \in 1..Len(keep) : {keep[i], j} \in sim}
    IN IF hits = {} THEN 0 ELSE CHOOSE i \in hits : \A k \in hits : i <= k

(* The keep_indices loop of deduplicate_scenarios: a duplicate that is      *)
(* shorter than the kept scenario it matches takes that scenario's place.   *)
RECURSIVE ScenarioKeepLoop(_, _, _, _, _)
ScenarioKeepLoop(j, n, keep, sim, lens) ==
    IF j > n THEN keep
    ELSE LET i == FirstSimilar(keep, j, sim)
         IN IF i = 0 THEN ScenarioKeepLoop(j + 1, n, Append(keep, j), sim, lens)
            ELSE IF lens = "decreasing"
                 THEN ScenarioKeepLoop(j + 1, n, Append(RemoveAt(keep, i), j), sim, lens)
                 ELSE ScenarioKeepLoop(j + 1, n, keep, sim, lens)

(* Number of scenarios deduplicate_scenarios returns for unique_orig of     *)
(* length n once the embeddings call has answered.                          *)
ScenariosAfterEmbeddings(n, embeddings, lens) ==
    IF ~embeddings.ok THEN n
    ELSE Len(ScenarioKeepLoop(2, n, <<1>>, embeddings.sim, lens))

(* Sizes unique_orig can have for n scenarios: the exact-match pass on the  *)
(* normalized texts runs only when a key is configured.                     *)
UniqueCounts(n, key) == IF key /\ n > 1 THEN 1..n ELSE {n}

----------------------------------------------------------------------------
(* Scenario dedup (utils/embeddings.py) on the scenario texts.              *)

SCENARIO_FILLER_PHRASES ==
    << <<"v", "a", "l", "i", "d", "a", "t", "e", " ", "t", "h", "a", "t">>,
       <<"e", "n", "s", "u", "r", "e", " ", "t", "h", "a", "t">>,
       <<"v", "e", "r", "i", "f", "y", " ", "t", "h", "a", "t">>,
       <<"c", "h", "e", "c", "k", " ", "t", "h", "a", "t">>,
       <<"c", "o", "n", "f", "i", "r", "m", " ", "t", "h", "a", "t">>,
       <<"m", "a", "k", "e", " ", "s", "u", "r", "e", " ", "t", "h", "a", "t">>,
       <<"e", "n", "s", "u", "r", "e", " ">>,
       <<"v", "a", "l", "i", "d", "a", "t", "e", " ">>,
       <<"v", "e", "r", "i", "f", "y", " ">>,
       <<"c", "h", "e", "c", "k", " ">> >>

(* re.sub(re.escape(phrase), " ", s): every occurrence, left to right. *)
RECURSIVE ReplaceAll(_, _)
ReplaceAll(s, phrase) ==
    IF Len(s) < Len(phrase) THEN s
    ELSE IF SubSeq(s, 1, Len(phrase)) = phrase
         THEN <<" ">> \o ReplaceAll(SubSeq(s, Len(phrase) + 1, Len(s)), phrase)
         ELSE <<Head(s)>> \o ReplaceAll(Tail(s), phrase)

(* The loop over SCENARIO_FILLER_PHRASES, from phrase k on. *)
RECURSIVE RemoveFillers(_, _)
RemoveFillers(s, k) ==
    IF k > Len(SCENARIO_FILLER_PHRASES) THEN s
    ELSE RemoveFillers(ReplaceAll(s, SCENARIO_FILLER_PHRASES[k]), k + 1)

normalize_scenario_text(scenario) ==
    IF scenario = <<>> THEN <<>>
    ELSE LET stripped == RStrip(LStrip(scenario))
             s == [i \in 1..Len(stripped) |-> Lower(stripped[i])]
         IN RStrip(LStrip(CollapseSpaces(RemoveFillers(s, 1))))

(* unique_orig: the scenarios whose normalized text was not seen before     *)
(* (one whose normalized text is empty is always kept).                     *)
RECURSIVE UniqueOrig(_, _, _)
UniqueOrig(scenarios, k, seen) ==
    IF k > Len(scenarios) THEN <<>>
    ELSE LET norm == normalize_scenario_text(scenarios[k])
         IN IF norm = <<>> THEN <<scenarios[k]>> \o UniqueOrig(scenarios, k + 1, seen)
            ELSE IF norm \in seen THEN UniqueOrig(scenarios, k + 1, seen)
            ELSE <<scenarios[k]>> \o UniqueOrig(scenarios, k + 1, seen \cup {norm})

(* The keep_indices loop on the texts themselves. *)
RECURSIVE ScenarioKeep(_, _, _, _)
ScenarioKeep(j, unique_orig, keep, sim) ==
    IF j > Len(unique_orig) THEN keep
    ELSE LET i == FirstSimilar(keep, j, sim)
         IN IF i = 0 THEN ScenarioKeep(j + 1, unique_orig, Append(keep, j), sim)
            ELSE IF Len(unique_orig[j]) < Len(unique_orig[keep[i]])
                 THEN ScenarioKeep(j + 1, unique_orig, Append(RemoveAt(keep, i), j), sim)
                 ELSE ScenarioKeep(j + 1, unique_orig, keep, sim)

(* result = [unique_orig[i] for i in sorted(keep_indices)] *)
KeptSorted(unique_orig, keep) ==
    LET kept == SelectSeq([i \in 1..Len(unique_orig) |-> i],
                          LAMBDA i : \E k \in 1..Len(keep) : keep[k] = i)
    IN [k \in 1..Len(kept) |-> unique_orig[kept[k]]]

(* Mutant: the exact-match pass on the normalized texts runs before the     *)
(* key is looked at.                                                        *)
deduplicate_scenarios_LexicalFirst(scenarios, api_key, embeddings) ==
    IF Len(scenarios) <= 1 THEN scenarios ELSE UniqueOrig(scenarios, 1, {})

(* deduplicate_scenarios; embeddings is what get_embeddings_cached answers  *)
(* for unique_norm.                                                         *)
deduplicate_scenarios(scenarios, api_key, embeddings) ==
    IF scenarios = <<>> THEN <<>>
    ELSE IF Len(scenarios) = 1 THEN scenarios
    ELSE IF ~api_key THEN scenarios
    ELSE LET unique_orig == UniqueOrig(scenarios, 1, {})
         IN IF Len(unique_orig) <= 1 THEN unique_orig
            ELSE IF ~embeddings.ok THEN unique_orig
            ELSE KeptSorted(unique_orig, ScenarioKeep(2, unique_orig, <<1>>, embeddings.sim))

----------------------------------------------------------------------------
(* One generation (generate_ai_test_cases) as a task.  pc is the await the  *)
(* task is suspended at; "ok" and "raise" are how the coroutine ended.      *)
(* li indexes the layer being generated, ran lists the layers started so    *)
(* far and acc is `accumulated`.  Within                                    *)
(* _extract_scenarios, reprompt says that expansion_request is set and      *)
(* existing is len(existing_scenarios); ecalls counts the provider calls    *)
(* _extract_scenarios has made for the layer and extracted is the length of *)
(* the list it returned; scen is len(scenarios) in _generate_layer; attempt *)
(* and delay are those of the loop of _expand_scenarios_to_tests.           *)

NewTask(kind, b, f, level) ==
    [kind |-> kind, b |-> b, f |-> f, pc |-> "created", level |-> level,
     provider |-> None, li |-> 0, ran |-> <<>>, reprompt |-> FALSE, existing |-> 0,
     ecalls |-> 0, extracted |-> 0, scen |-> 0, attempt |-> 0, delay |-> 0,
     acc |-> <<>>, error |-> None, model_id |-> None, sent |-> None,
     cache |-> {}, requested |-> {}, shared |-> FALSE, fetched |-> {},
     existing_scenarios |-> <<>>]

Layers(t) == COVERAGE_LEVEL_LAYERS(t.level)

Raise(t, err) == [t EXCEPT !.pc = "raise", !.error = err]

(* After the layer loop: _deduplicate_by_embeddings awaits the embeddings   *)
(* backend only for two or more cases and with a key; then the title pass.  *)
ReturnCases(t, cases) ==
    [t EXCEPT !.pc = "ok", !.acc = remove_near_duplicate_titles(cases)]

AfterLayers(t, key) ==
    IF Len(t.acc) > 1 /\ key THEN [t EXCEPT !.pc = "case_embeddings"]
    ELSE ReturnCases(t, deduplicate_by_embeddings(t.acc, [ok |-> FALSE, sim |-> {}]))

(* Head of `for layer in layers`: the next layer's first extraction call.   *)
(* current is self._current_model_id as the step finds it: the model id   *)
(* that _extract_scenarios sends with its call.                             *)
BeginLayerAt(t, key, current) ==
    IF t.li > Len(Layers(t)) THEN AfterLayers(t, key)
    ELSE [t EXCEPT !.pc = "extract", !.ran = Append(@, Layers(t)[t.li]),
                   !.reprompt = FALSE, !.existing = 0,
                   !.ecalls = 1, !.extracted = 0, !.scen = 0, !.attempt = 0,
                   !.delay = 0, !.sent = current]

BeginLayer(t, key) == BeginLayerAt(t, key, _current_model_id)

(* generate_ai_test_cases up to its first await. *)
BeginGenerate(t, provider, model_id, key) ==
    LET provider_name == IF model_id # None THEN model_id_to_provider(model_id)
                         ELSE provider
        got == get_provider(provider_name, key)
    IN IF ~got.ok THEN Raise([t EXCEPT !.model_id = model_id], got.error)
       ELSE BeginLayerAt([t EXCEPT !.provider = got.provider, !.li = 1, !.acc = <<>>,
                                   !.model_id = model_id], key, model_id)

(* self._current_model_id after that: set once get_provider has returned.   *)
ModelIdAfterBegin(provider, model_id, key) ==
    LET provider_name == IF model_id # None THEN model_id_to_provider(model_id)
                         ELSE provider
    IN IF get_provider(provider_name, key).ok THEN model_id ELSE _current_model_id

(* Mutant: the loop over the layers steps over the layer after this one. *)
LayerDone_SkipsNext(t, cases, key) ==
    BeginLayer([t EXCEPT !.acc = @ \o cases, !.li = @ + 2], key)

(* End of one pass of `for layer in layers`: accumulated.extend(batch). *)
LayerDone(t, cases, key) ==
    BeginLayer([t EXCEPT !.acc = @ \o cases, !.li = @ + 1], key)

(* _expand_scenarios_to_tests up to its first provider call. *)
StartExpand(t, key) ==
    IF t.scen = 0 THEN LayerDone(t, <<>>, key)
    ELSE [t EXCEPT !.pc = "expand", !.attempt = 1, !.sent = _current_model_id]

(* deduplicate_scenarios up to its embeddings call; u = Len(unique_orig).   *)
AfterExtract(t, key, u) ==
    IF t.scen <= 1 \/ ~key THEN StartExpand(t, key)
    ELSE IF u <= 1 THEN StartExpand([t EXCEPT !.scen = u], key)
    ELSE [t EXCEPT !.scen = u, !.pc = "scenario_embeddings"]

(* Mutant: the floor is enforced on the answer to the re-prompt too. *)
OnScenarios_FloorAgain(t, resp, key, u) ==
    IF resp.kind = "raise" THEN Raise(t, "provider request failed")
    ELSE IF resp.kind # "scenarios" THEN Raise(t, "LLM output is not valid JSON")
    ELSE IF resp.n = 0 THEN Raise(t, "LLM returned no scenarios")
    ELSE IF resp.n < MIN_SCENARIOS_PER_LAYER(Layers(t)[t.li])
         THEN [t EXCEPT !.reprompt = TRUE, !.existing = resp.n, !.ecalls = @ + 1,
                        !.sent = _current_model_id]
    ELSE AfterExtract([t EXCEPT !.reprompt = FALSE, !.existing = 0,
                                !.extracted = resp.n, !.scen = resp.n], key, u)

(* Mutant: an answer that does not parse is asked for again, once. *)
OnScenarios_RetriesMalformed(t, resp, key, u) ==
    IF resp.kind = "raise" THEN Raise(t, "provider request failed")
    ELSE IF resp.kind # "scenarios"
         THEN IF t.ecalls < 2 THEN [t EXCEPT !.ecalls = @ + 1]
              ELSE Raise(t, "LLM output is not valid JSON")
    ELSE IF resp.n = 0 THEN Raise(t, "LLM returned no scenarios")
    ELSE IF resp.n < MIN_SCENARIOS_PER_LAYER(Layers(t)[t.li]) /\ ~t.reprompt
         THEN [t EXCEPT !.reprompt = TRUE, !.existing = resp.n, !.ecalls = @ + 1,
                        !.sent = _current_model_id]
    ELSE AfterExtract([t EXCEPT !.reprompt = FALSE, !.existing = 0,
                                !.extracted = resp.n, !.scen = resp.n], key, u)

(* _extract_scenarios after its provider call answered resp. *)
OnScenarios(t, resp, key, u) ==
    IF resp.kind = "raise" THEN Raise(t, "provider request failed")
    ELSE IF resp.kind # "scenarios" THEN Raise(t, "LLM output is not valid JSON")
    ELSE IF resp.n = 0 THEN Raise(t, "LLM returned no scenarios")
    ELSE IF resp.n < MIN_SCENARIOS_PER_LAYER(Layers(t)[t.li]) /\ ~t.reprompt
         THEN [t EXCEPT !.reprompt = TRUE, !.existing = resp.n, !.ecalls = @ + 1,
                        !.sent = _current_model_id]
    ELSE AfterExtract([t EXCEPT !.reprompt = FALSE, !.existing = 0,
                                !.extracted = resp.n, !.scen = resp.n], key, u)

OnScenarioEmbeddings(t, embeddings, lens, key) ==
    StartExpand([t EXCEPT !.scen = ScenariosAfterEmbeddings(t.scen, embeddings, lens)], key)

(* TestCase.model_validate gives every case a fresh uuid4 id. *)
Validated(raw_cases, tid, li) ==
    [k \in 1..Len(raw_cases) |->
        [id |-> <<tid, li, k>>, test_scenario |-> raw_cases[k].test_scenario,
         detail |-> raw_cases[k].detail]]

(* One pass of the attempt loop of _expand_scenarios_to_tests after the     *)
(* provider answered resp.                                                  *)
OnExpand(t, tid, resp, key) ==
    IF resp.kind = "raise" THEN Raise(t, "provider request failed")
    ELSE IF resp.kind = "test_cases"
         THEN LayerDone(t, Validated(resp.cases, tid, t.li), key)
    ELSE IF t.attempt < max_attempts
         THEN [t EXCEPT !.pc = "sleep", !.delay = RetryDelay(t.attempt)]
    ELSE Raise(t, "LLM output is not valid JSON")

(* asyncio.sleep(delay) is over: the next attempt's provider call. *)
OnWake(t) == [t EXCEPT !.pc = "expand", !.attempt = @ + 1, !.delay = 0]

(* Mutant: the title pass runs before the embedding dedup. *)
OnCaseEmbeddings_TitleFirst(t, embeddings) ==
    [t EXCEPT !.pc = "ok",
              !.acc = deduplicate_by_embeddings(remove_near_duplicate_titles(t.acc),
                                                embeddings)]

(* The embeddings call of _deduplicate_by_embeddings answered: the rest of  *)
(* generate_ai_test_cases.                                                  *)
OnCaseEmbeddings(t, embeddings) ==
    ReturnCases(t, deduplicate_by_embeddings(t.acc, embeddings))

----------------------------------------------------------------------------
(* The batch coordinator.                                                   *)

Statuses(batch) == {batch.features[f].status : f \in 1..Len(batch.features)}

(* Mutant: features still pending or generating are looked at before the   *)
(* failed ones.                                                             *)
update_batch_status_RunningFirst(batch) ==
    LET statuses == Statuses(batch)
    IN IF \A s \in statuses : s = "completed" THEN [batch EXCEPT !.status = "completed"]
       ELSE IF \E s \in statuses : s \in {"generating", "pending"}
            THEN [batch EXCEPT !.status = "running"]
       ELSE IF \E s \in statuses : s = "failed" THEN [batch EXCEPT !.status = "partial"]
       ELSE [batch EXCEPT !.status = "completed"]

_update_batch_status(batch) ==
    LET statuses == Statuses(batch)
    IN IF \A s \in statuses : s = "completed" THEN [batch EXCEPT !.status = "completed"]
       ELSE IF \E s \in statuses : s = "failed" THEN [batch EXCEPT !.status = "partial"]
       ELSE IF \E s \in statuses : s \in {"generating", "pending"}
            THEN [batch EXCEPT !.status = "running"]
       ELSE [batch EXCEPT !.status = "completed"]

(* _run_one_feature: fr.status = "generating". *)
MarkGenerating(fr) == [fr EXCEPT !.status = "generating"]

(* Mutant: completion leaves the error field as it finds it. *)
FeatureCompleted_KeepsError(fr, cases) ==
    [fr EXCEPT !.items = cases, !.status = "completed"]

(* _run_one_feature: the body of the try after generate_ai_test_cases. *)
FeatureCompleted(fr, cases) ==
    [fr EXCEPT !.items = cases, !.status = "completed", !.error = None]

(* Mutant: the except branch records no error message. *)
FeatureFailed_NoError(fr, err) == [fr EXCEPT !.status = "failed", !.items = <<>>]

(* Mutant: the except branch leaves the status as it is. *)
FeatureFailed_KeepsStatus(fr, err) == [fr EXCEPT !.error = err, !.items = <<>>]

(* _run_one_feature: the except branch. *)
FeatureFailed(fr, err) ==
    [fr EXCEPT !.status = "failed", !.error = err, !.items = <<>>]

(* Mutant: the reset keeps the items of the earlier run. *)
ResetFeature_KeepsItems(fr) == [fr EXCEPT !.status = "pending", !.error = None]

(* retry_batch_feature: the reset before the re-run. *)
ResetFeature(fr) == [fr EXCEPT !.status = "pending", !.error = None, !.items = <<>>]

Range(seq) == {seq[i] : i \in 1..Len(seq)}

(* A task whose _run_one_feature has returned; what its generation         *)
(* returned or raised, and what it had accumulated when it raised, is kept  *)
(* for reference.                                                           *)
Done(t) ==
    [NewTask(t.kind, t.b, t.f, t.level) EXCEPT
        !.pc = "done", !.error = t.error, !.acc = t.acc, !.model_id = t.model_id]

(* Mutant: what the generation had accumulated is stored even when it      *)
(* raised.                                                                  *)
Settle_StoresPartial(tid, t2, bs, tk) ==
    IF t2.pc \notin {"ok", "raise"} \/ t2.kind = "single"
    THEN /\ tasks' = [tk EXCEPT ![tid] = t2]
         /\ batch_store' = bs
         /\ store' = store
    ELSE LET fr == bs[t2.b].features[t2.f]
             fr2 == IF t2.pc = "ok" THEN FeatureCompleted(fr, t2.acc)
                    ELSE FeatureFailed(fr, t2.error)
             batch2 == [bs[t2.b] EXCEPT !.features[t2.f] = fr2]
         IN /\ tasks' = [tk EXCEPT ![tid] = Done(t2)]
            /\ batch_store' = [bs EXCEPT ![t2.b] = _update_batch_status(batch2)]
            /\ store' = store \cup Range(t2.acc)

(* Where task tid stands after a step that left it as t2, from the batch    *)
(* store bs and task table tk: still suspended, or, when the generation     *)
(* ended, the rest of _run_one_feature (a single-feature call just ends).   *)
Settle(tid, t2, bs, tk) ==
    IF t2.pc \notin {"ok", "raise"} \/ t2.kind = "single"
    THEN /\ tasks' = [tk EXCEPT ![tid] = t2]
         /\ batch_store' = bs
         /\ store' = store
    ELSE LET fr == bs[t2.b].features[t2.f]
             fr2 == IF t2.pc = "ok" THEN FeatureCompleted(fr, t2.acc)
                    ELSE FeatureFailed(fr, t2.error)
             batch2 == [bs[t2.b] EXCEPT !.features[t2.f] = fr2]
         IN /\ tasks' = [tk EXCEPT ![tid] = Done(t2)]
            /\ batch_store' = [bs EXCEPT ![t2.b] = _update_batch_status(batch2)]
            /\ store' = IF t2.pc = "ok" THEN store \cup Range(t2.acc) ELSE store

(* _run_one_feature from its start to its first await, for task tid = t. *)
RunOneFeatureStart(tid, t, provider, bs, tk) ==
    LET bs2 == [bs EXCEPT ![t.b].features[t.f] = MarkGenerating(@)]
    IN /\ Settle(tid, BeginGenerate(t, provider, bs[t.b].model_id, openai_api_key),
                 bs2, tk)
       /\ _current_model_id' = ModelIdAfterBegin(provider, bs[t.b].model_id, openai_api_key)

(* Mutant: the batch is created with status pending. *)
NewBatch_Pending(provider, model_id, configs) ==
    [status |-> "pending",
     features |-> [f \in 1..Len(configs) |->
                      [status |-> "pending", items |-> <<>>, error |-> None]],
     provider |-> IF model_id # None /\ provider = None
                  THEN model_id_to_provider(model_id) ELSE provider,
     model_id |-> model_id,
     config_by_feature_id |-> configs]

NewBatch(provider, model_id, configs) ==
    [status |-> "running",
     features |-> [f \in 1..Len(configs) |->
                      [status |-> "pending", items |-> <<>>, error |-> None]],
     provider |-> IF model_id # None /\ provider = None
                  THEN model_id_to_provider(model_id) ELSE provider,
     model_id |-> model_id,
     config_by_feature_id |-> configs]

RECURSIVE SumFeatures(_)
SumFeatures(bs) == IF bs = <<>> THEN 0 ELSE Len(Head(bs).features) + SumFeatures(Tail(bs))

TotalFeatures == SumFeatures(batch_store)

(* start_batch: the batch is stored, run_all is created, the id returned. *)
StartBatch(provider, model_id, configs) ==
    /\ Len(batch_store) < MaxBatches
    /\ TotalFeatures + Len(configs) <= MaxTotalFeatures
    /\ batch_store' = Append(batch_store, NewBatch(provider, model_id, configs))
    /\ run_all' = Append(run_all, "scheduled")
    /\ UNCHANGED <<store, tasks, openai_api_key, retries, deletes, _current_model_id>>
    /\ call' = NoCall

FeatureTasks(b, tk) == {i \in 1..Len(tk) : tk[i].kind = "feature" /\ tk[i].b = b}

(* run_all's first step: gather wraps one _run_one_feature coroutine per    *)
(* feature in a task and run_all awaits them; with no feature the gather is *)
(* already done and run_all runs to its end.                                *)
RunAll(b) ==
    /\ run_all[b] = "scheduled"
    /\ LET n == Len(batch_store[b].features)
           created == [f \in 1..n |->
                          NewTask("feature", b, f, batch_store[b].config_by_feature_id[f])]
       IN /\ tasks' = tasks \o created
          /\ IF n = 0
             THEN /\ batch_store' = [batch_store EXCEPT ![b] = _update_batch_status(@)]
                  /\ run_all' = [run_all EXCEPT ![b] = "done"]
             ELSE /\ batch_store' = batch_store
                  /\ run_all' = [run_all EXCEPT ![b] = "gather"]
    /\ UNCHANGED <<store, openai_api_key, retries, deletes, _current_model_id>>
    /\ call' = NoCall

(* A task gather created gets its first turn, in creation order. *)
RunOneFeature(tid) ==
    /\ tasks[tid].pc = "created"
    /\ \A i \in 1..(tid - 1) : tasks[i].pc # "created"
    /\ RunOneFeatureStart(tid, tasks[tid], batch_store[tasks[tid].b].provider,
                          batch_store, tasks)
    /\ UNCHANGED <<run_all, openai_api_key, retries, deletes>>
    /\ call' = NoCall

(* Every gathered task is done: run_all resumes and recomputes the status. *)
RunAllDone(b) ==
    /\ run_all[b] = "gather"
    /\ \A i \in FeatureTasks(b, tasks) : tasks[i].pc = "done"
    /\ batch_store' = [batch_store EXCEPT ![b] = _update_batch_status(@)]
    /\ run_all' = [run_all EXCEPT ![b] = "done"]
    /\ UNCHANGED <<store, tasks, openai_api_key, retries, deletes, _current_model_id>>
    /\ call' = NoCall

(* Mutant: the retry resets every feature of the batch. *)
RetryBatchFeature_ResetsAll(b, f, provider) ==
    /\ retries < MaxRetries
    /\ LET batch == batch_store[b]
           bs == [batch_store EXCEPT ![b].features =
                     [g \in 1..Len(@) |-> ResetFeature(@[g])]]
           prov == IF provider # None THEN provider ELSE batch.provider
           t == NewTask("retry", b, f, batch.config_by_feature_id[f])
       IN RunOneFeatureStart(Len(tasks) + 1, t, prov, bs, Append(tasks, t))
    /\ retries' = retries + 1
    /\ UNCHANGED <<run_all, openai_api_key, deletes>>
    /\ call' = NoCall

(* retry_batch_feature on a known batch and feature, up to the first await  *)
(* of the re-run (or to its return, when the re-run never awaits).          *)
RetryStep(b, f, provider) ==
    /\ retries < MaxRetries
    /\ LET batch == batch_store[b]
           bs == [batch_store EXCEPT ![b].features[f] = ResetFeature(@)]
           prov == IF provider # None THEN provider ELSE batch.provider
           t == NewTask("retry", b, f, batch.config_by_feature_id[f])
       IN RunOneFeatureStart(Len(tasks) + 1, t, prov, bs, Append(tasks, t))
    /\ retries' = retries + 1
    /\ UNCHANGED <<run_all, openai_api_key, deletes>>

RetryBatchFeature(b, f, provider) ==
    /\ RetryStep(b, f, provider)
    /\ call' = NoCall

(* The same, with the call on record; tid is the task of the re-run. *)
RetryBatchFeatureCalled(b, f, provider) ==
    /\ RetryStep(b, f, provider)
    /\ call' = [op |-> "retry_batch_feature", batch_id |-> b, feature_id |-> f,
                provider |-> provider, tid |-> Len(tasks) + 1]

Awaiting(pcs) == {i \in 1..Len(tasks) : tasks[i].pc \in pcs}

(* The event loop runs the callbacks already scheduled (the first step of   *)
(* run_all, of each task it gathered) before it takes up an answer from the *)
(* network or a timer: create_task and gather schedule with call_soon.      *)
ReadyQueueEmpty ==
    /\ \A i \in 1..Len(tasks) : tasks[i].pc # "created"
    /\ \A b \in 1..Len(run_all) : run_all[b] # "scheduled"

Resumable(pcs) == IF ReadyQueueEmpty THEN Awaiting(pcs) ELSE {}

(* The step a generation takes when its provider call answers. *)
ProviderStep(tid, resp, u) ==
    /\ tasks[tid].pc \in {"extract", "expand"}
    /\ IF tasks[tid].pc = "extract"
       THEN /\ u \in UniqueCounts(resp.n, openai_api_key)
            /\ Settle(tid, OnScenarios(tasks[tid], resp, openai_api_key, u),
                      batch_store, tasks)
       ELSE /\ u = 0
            /\ Settle(tid, OnExpand(tasks[tid], tid, resp, openai_api_key),
                      batch_store, tasks)
    /\ UNCHANGED <<run_all, openai_api_key, retries, deletes, _current_model_id>>

(* A provider call answers. *)
ProviderAnswers(tid, resp, u) ==
    /\ ProviderStep(tid, resp, u)
    /\ call' = NoCall

(* The same step, with the call that returned on record: the step that     *)
(* made it (at), its place among the layer's calls and its answer.          *)
ProviderCallReturns(tid, resp, u) ==
    /\ ProviderStep(tid, resp, u)
    /\ call' = [op |-> "provider.generate_test_cases", tid |-> tid,
                at |-> tasks[tid].pc, provider |-> tasks[tid].provider,
                reprompt |-> tasks[tid].reprompt, ecalls |-> tasks[tid].ecalls,
                attempt |-> tasks[tid].attempt, li |-> tasks[tid].li, resp |-> resp]

(* An embeddings call answers. *)
EmbeddingsAnswer(tid, embeddings, lens) ==
    /\ tasks[tid].pc \in {"scenario_embeddings", "case_embeddings"}
    /\ IF tasks[tid].pc = "scenario_embeddings"
       THEN Settle(tid, OnScenarioEmbeddings(tasks[tid], embeddings, lens, openai_api_key),
                   batch_store, tasks)
       ELSE /\ lens = "same"
            /\ Settle(tid, OnCaseEmbeddings(tasks[tid], embeddings), batch_store, tasks)
    /\ UNCHANGED <<run_all, openai_api_key, retries, deletes, _current_model_id>>
    /\ call' = [op |-> "get_embeddings", out |-> embeddings]

(* The sleep between two expansion attempts is over. *)
Wake(tid) ==
    /\ tasks[tid].pc = "sleep"
    /\ Settle(tid, OnWake(tasks[tid]), batch_store, tasks)
    /\ UNCHANGED <<run_all, openai_api_key, retries, deletes, _current_model_id>>
    /\ call' = NoCall

(* Mutant: a feature that held the deleted case loses all its items. *)
RemoveCase_ClearsItems(items, id) ==
    IF \E k \in 1..Len(items) : items[k].id = id THEN <<>> ELSE items

(* Mutant: the features keep listing the deleted case. *)
RemoveCase_KeepsAll(items, id) == items

(* fr.items = [tc for tc in fr.items if tc.id != test_case_id] *)
RemoveCase(items, id) == SelectSeq(items, LAMBDA tc : tc.id # id)

(* delete_test_case. *)
DeleteTestCase(id) ==
    /\ deletes < MaxDeletes
    /\ deletes' = deletes + 1
    /\ IF \E tc \in store : tc.id = id
       THEN /\ store' = {tc \in store : tc.id # id}
            /\ batch_store' =
                 [b \in 1..Len(batch_store) |->
                    [batch_store[b] EXCEPT !.features =
                       [f \in 1..Len(@) |-> [@[f] EXCEPT !.items = RemoveCase(@, id)]]]]
            /\ call' = [op |-> "delete_test_case", test_case_id |-> id, out |-> TRUE]
       ELSE /\ UNCHANGED <<store, batch_store>>
            /\ call' = [op |-> "delete_test_case", test_case_id |-> id, out |-> FALSE]
    /\ UNCHANGED <<run_all, tasks, openai_api_key, retries, _current_model_id>>

(* all_cases of get_batch_merged_cases: the items of the features that     *)
(* have any, in the order of batch.features.                                *)
RECURSIVE AllCases(_)
AllCases(features) ==
    IF features = <<>> THEN <<>>
    ELSE (IF Head(features).items # <<>> THEN Head(features).items ELSE <<>>)
         \o AllCases(Tail(features))

(* Mutant: the merged list is returned as collected, dedupe or not. *)
get_batch_merged_cases_NoDedupe(bs, b, dedupe) ==
    IF b \notin 1..Len(bs) THEN <<>> ELSE AllCases(bs[b].features)

get_batch_merged_cases(bs, b, dedupe) ==
    IF b \notin 1..Len(bs) THEN <<>>
    ELSE LET all_cases == AllCases(bs[b].features)
         IN IF dedupe /\ all_cases # <<>> THEN remove_near_duplicate_titles(all_cases)
            ELSE all_cases

(* get_batch_merged_cases called and returned. *)
GetBatchMergedCases(b, dedupe) ==
    /\ call' = [op |-> "get_batch_merged_cases", batch_id |-> b, dedupe |-> dedupe,
                out |-> get_batch_merged_cases(batch_store, b, dedupe)]
    /\ UNCHANGED <<store, batch_store, run_all, tasks, openai_api_key, retries, deletes,
                 _current_model_id>>

(* POST /ai-generate: generate_ai_test_cases called for one feature. *)
GenerateSingle(level, provider, model_id) ==
    /\ tasks = <<>>
    /\ LET t == NewTask("single", 0, 0, level)
       IN Settle(Len(tasks) + 1, BeginGenerate(t, provider, model_id, openai_api_key),
                 batch_store, Append(tasks, t))
    /\ _current_model_id' = ModelIdAfterBegin(provider, model_id, openai_api_key)
    /\ UNCHANGED <<run_all, openai_api_key, retries, deletes>>
    /\ call' = NoCall

----------------------------------------------------------------------------

Init ==
    /\ store = {}
    /\ batch_store = <<>>
    /\ run_all = <<>>
    /\ tasks = <<>>
    /\ openai_api_key \in BOOLEAN
    /\ retries = 0
    /\ deletes = 0
    /\ _current_model_id = None
    /\ call = NoCall

ConfigLists == UNION {[1..n -> BatchLevels] : n \in 0..MaxFeatures}

(* The steps of the generations in flight, for the answers the provider     *)
(* (responses; with or without scenarios that are equal once normalized)    *)
(* and the embeddings backend (profiles) may give.                          *)
Pipeline(responses, duplicates, profiles) ==
    \/ \E tid \in Resumable({"extract", "expand"}), resp \in responses,
          u \in 0..MaxScenarios :
          /\ duplicates \/ u \in {0, resp.n}
          /\ ProviderAnswers(tid, resp, u)
    \/ \E tid \in Resumable({"scenario_embeddings", "case_embeddings"}),
          lens \in LengthProfiles :
          \E embeddings \in EmbeddingResponses(IF tasks[tid].pc = "case_embeddings"
                                               THEN Len(tasks[tid].acc)
                                               ELSE tasks[tid].scen, profiles) :
             EmbeddingsAnswer(tid, embeddings, lens)
    \/ \E tid \in Resumable({"sleep"}) : Wake(tid)

Next ==
    \/ \E provider \in BatchProviders, model_id \in BatchModelIds, configs \in ConfigLists :
          StartBatch(provider, model_id, configs)
    \/ \E b \in 1..Len(batch_store) : RunAll(b)
    \/ \E tid \in Awaiting({"created"}) : RunOneFeature(tid)
    \/ \E b \in 1..Len(batch_store) : RunAllDone(b)
    \/ \E b \in 1..Len(batch_store) :
          \E f \in 1..Len(batch_store[b].features), provider \in RetryProviders :
             RetryBatchFeature(b, f, provider)
    \/ \E id \in {tc.id : tc \in store} : DeleteTestCase(id)
    \/ Pipeline(BatchResponses, FALSE, BatchSimProfiles)

Spec == Init /\ [][Next]_vars

NextGen ==
    \/ \E level \in SingleLevels, provider \in SingleProviders, model_id \in SingleModelIds :
          GenerateSingle(level, provider, model_id)
    \/ Pipeline(ProviderResponses, TRUE, SimProfiles)

SpecGen == Init /\ [][NextGen]_vars

(* The dedup functions called on their own. *)
RemoveNearDuplicateTitles(cases) ==
    /\ call' = [op |-> "_remove_near_duplicate_titles", cases |-> cases,
                out |-> remove_near_duplicate_titles(cases)]
    /\ UNCHANGED <<store, batch_store, run_all, tasks, openai_api_key, retries, deletes,
                 _current_model_id>>

DeduplicateByEmbeddings(cases, embeddings) ==
    /\ openai_api_key \/ ~embeddings.ok
    /\ call' = [op |-> "_deduplicate_by_embeddings", cases |-> cases,
                embeddings |-> embeddings,
                out |-> deduplicate_by_embeddings(cases, embeddings)]
    /\ UNCHANGED <<store, batch_store, run_all, tasks, openai_api_key, retries, deletes,
                 _current_model_id>>

DeduplicateScenarios(scenarios, embeddings) ==
    /\ openai_api_key \/ ~embeddings.ok
    /\ call' = [op |-> "deduplicate_scenarios", scenarios |-> scenarios,
                api_key |-> openai_api_key, embeddings |-> embeddings,
                out |-> deduplicate_scenarios(scenarios, openai_api_key, embeddings)]
    /\ UNCHANGED <<store, batch_store, run_all, tasks, openai_api_key, retries, deletes,
                 _current_model_id>>

(* The inputs of the dedup functions: test cases with the id of their       *)
(* place in the list, and scenario texts.                                   *)
MaxCases == 3
MaxDetail == 2

Titles == {<<"a">>, <<"b">>, <<"a", "b">>, <<"A", " ">>}

CaseLists ==
    UNION {{[k \in 1..n |-> [id |-> <<0, 0, k>>, test_scenario |-> ts[k],
                              detail |-> ds[k]]] :
               ts \in [1..n -> Titles], ds \in [1..n -> 1..MaxDetail]} :
           n \in 0..MaxCases}

ScenarioTexts ==
    {<<"a">>, <<"A", " ">>, <<"b">>, <<"a", " ", "b">>,
     <<"c", "h", "e", "c", "k", " ", "a">>}

ScenarioLists == UNION {[1..n -> ScenarioTexts] : n \in 0..MaxCases}

(* One call per behaviour, on any of the inputs. *)
NextDedup ==
    \/ /\ call = NoCall
       /\ \E cases \in CaseLists : RemoveNearDuplicateTitles(cases)
    \/ /\ call = NoCall
       /\ \E cases \in CaseLists :
             \E embeddings \in EmbeddingResponses(Len(cases), SimProfiles) :
                DeduplicateByEmbeddings(cases, embeddings)
    \/ /\ call = NoCall
       /\ \E scenarios \in ScenarioLists :
             \E embeddings \in EmbeddingResponses(Len(UniqueOrig(scenarios, 1, {})),
                                                  SimProfiles) :
                DeduplicateScenarios(scenarios, embeddings)

SpecDedup == Init /\ [][NextDedup]_vars

(* One batch whose features have several layers each. *)
LayeredLevels == {"medium"}

LayeredConfigLists == UNION {[1..n -> LayeredLevels] : n \in 1..MaxFeatures}

NextLayers ==
    \/ \E configs \in LayeredConfigLists :
          batch_store = <<>> /\ StartBatch(None, None, configs)
    \/ \E b \in 1..Len(batch_store) : RunAll(b)
    \/ \E tid \in Awaiting({"created"}) : RunOneFeature(tid)
    \/ \E b \in 1..Len(batch_store) : RunAllDone(b)
    \/ Pipeline(BatchResponses, FALSE, BatchSimProfiles)

SpecLayers == Init /\ [][NextLayers]_vars

(* One batch, with the calls that read and delete what it produced.  The    *)
(* provider fails or answers well-formed; the embeddings backend finds no   *)
(* two cases similar.                                                       *)
ExportResponses == {r \in BatchResponses : r.kind # "malformed"}

AbsentId == <<0, 0, 0>>

NextExport ==
    \/ \E configs \in ConfigLists :
          batch_store = <<>> /\ StartBatch(None, None, configs)
    \/ \E b \in 1..Len(batch_store) : RunAll(b)
    \/ \E tid \in Awaiting({"created"}) : RunOneFeature(tid)
    \/ \E b \in 1..Len(batch_store) : RunAllDone(b)
    \/ \E b \in 1..Len(batch_store) :
          \E f \in 1..Len(batch_store[b].features) : RetryBatchFeature(b, f, None)
    \/ \E id \in {tc.id : tc \in store} \cup {AbsentId} : DeleteTestCase(id)
    \/ \E b \in 1..(Len(batch_store) + 1), dedupe \in BOOLEAN :
          GetBatchMergedCases(b, dedupe)
    \/ \E tid \in Resumable({"extract", "expand"}), resp \in ExportResponses :
          ProviderAnswers(tid, resp, resp.n)
    \/ \E tid \in Resumable({"scenario_embeddings", "case_embeddings"}) :
          \E embeddings \in EmbeddingResponses(IF tasks[tid].pc = "case_embeddings"
                                               THEN Len(tasks[tid].acc)
                                               ELSE tasks[tid].scen, BatchSimProfiles) :
             EmbeddingsAnswer(tid, embeddings, "same")

SpecExport == Init /\ [][NextExport]_vars

----------------------------------------------------------------------------
(* Properties.                                                              *)

TaskIds == 1..Len(tasks)

InFlight(t) == t.pc \notin {"created", "done", "ok", "raise"}

(* Task tid takes the step that ends its _run_one_feature (a retry that     *)
(* never awaits is created and ended by the same step).                     *)
Ends(tid) ==
    /\ tid \in 1..Len(tasks')
    /\ tasks'[tid].pc = "done"
    /\ tid \in TaskIds => tasks[tid].pc # "done"

(* Task tid takes a step. *)
Steps(tid) ==
    /\ tid \in 1..Len(tasks')
    /\ tid \in TaskIds => tasks'[tid] # tasks[tid]

Feature(b, f) == batch_store[b].features[f]

AllFeatures == {<<b, f>> \in (1..MaxBatches + 1) \X (1..MaxTotalFeatures + 1) :
                    b <= Len(batch_store) /\ f <= Len(batch_store[b].features)}

(* The status the feature statuses of a batch call for. *)
DerivedStatus(batch) ==
    LET n == Len(batch.features)
        st(f) == batch.features[f].status
    IN IF \A f \in 1..n : st(f) = "completed" THEN "completed"
       ELSE IF \E f \in 1..n : st(f) = "failed" THEN "partial"
       ELSE "running"

(* C1: the step that ends a feature task of a batch leaves the feature      *)
(* failed with the raised error recorded and no items when its generation   *)
(* raised, and completed with the returned cases when it returned; it       *)
(* changes no other feature and no other task.                              *)
C1_FailureIsolated ==
    [][\A tid \in 1..Len(tasks') :
          (Ends(tid) /\ tasks'[tid].kind = "feature") =>
             LET t == tasks'[tid]
                 fr == batch_store'[t.b].features[t.f]
             IN /\ t.error # None =>
                      fr = [status |-> "failed", items |-> <<>>, error |-> t.error]
                /\ t.error = None =>
                      fr = [status |-> "completed", items |-> t.acc, error |-> None]
                /\ \A p \in AllFeatures :
                      p # <<t.b, t.f>> =>
                         batch_store'[p[1]].features[p[2]] = Feature(p[1], p[2])
                /\ \A i \in TaskIds : i # tid => tasks'[i] = tasks[i]]_vars

(* A batch never retried or deleted from, both feature tasks done: the      *)
(* first feature failed, the second completed with its cases.               *)
C1_Witness ==
    /\ retries = 0 /\ deletes = 0
    /\ \E b \in 1..Len(batch_store) :
          /\ Len(batch_store[b].features) = 2
          /\ Feature(b, 1).status = "failed" /\ Feature(b, 1).error # None
          /\ Feature(b, 2).status = "completed" /\ Feature(b, 2).items # <<>>
          /\ batch_store[b].status = "partial"

(* C2: at most one task is executing _run_one_feature for a batch feature.  *)
C2_SingleWriter ==
    \A p \in AllFeatures :
       Cardinality({tid \in TaskIds : /\ tasks[tid].kind \in {"feature", "retry"}
                                      /\ <<tasks[tid].b, tasks[tid].f>> = p
                                      /\ InFlight(tasks[tid])}) <= 1

(* C3: every step that runs _update_batch_status on a batch leaves its      *)
(* status completed iff every feature is completed (an empty batch          *)
(* included), else partial iff some feature is failed, else running.        *)
Recomputed(b) ==
    \/ run_all[b] # "done" /\ run_all'[b] = "done"
    \/ \E tid \in 1..Len(tasks') :
          Ends(tid) /\ tasks'[tid].kind \in {"feature", "retry"} /\ tasks'[tid].b = b

C3_StatusDerivation ==
    [][\A b \in 1..Len(batch_store) :
          Recomputed(b) =>
             LET sts == {batch_store'[b].features[f].status :
                            f \in 1..Len(batch_store'[b].features)}
                 st == batch_store'[b].status
             IN /\ st \in {"completed", "partial", "running"}
                /\ st = "completed" <=> sts \subseteq {"completed"}
                /\ st = "partial" <=> (~(sts \subseteq {"completed"}) /\ "failed" \in sts)
                /\ sts = {} => st = "completed"]_vars

(* An empty batch resolved to completed, and a batch that is partial while  *)
(* one of its features is still generating.                                 *)
C3_Witness ==
    \E b1, b2 \in 1..Len(batch_store) :
       /\ batch_store[b1].features = <<>> /\ batch_store[b1].status = "completed"
       /\ Len(batch_store[b2].features) = 2
       /\ Feature(b2, 1).status = "failed" /\ Feature(b2, 2).status = "generating"
       /\ batch_store[b2].status = "partial"
       /\ retries = 0

(* C4: whenever a task of a batch is suspended, the stored batch status is  *)
(* the one the feature statuses call for.                                   *)
C4_StatusInvariant ==
    \A b \in 1..Len(batch_store) :
       (\E tid \in TaskIds : /\ tasks[tid].kind \in {"feature", "retry"}
                             /\ tasks[tid].b = b /\ InFlight(tasks[tid]))
          => batch_store[b].status = DerivedStatus(batch_store[b])

(* C5: no step of a retry (the call, or any later step of the re-run)       *)
(* changes a feature other than the retried one, in any batch.              *)
C5_RetryFrame ==
    [][\A tid \in 1..Len(tasks') :
          (Steps(tid) /\ tasks'[tid].kind = "retry") =>
             \A p \in AllFeatures :
                p # <<tasks'[tid].b, tasks'[tid].f>> =>
                   batch_store'[p[1]].features[p[2]] = Feature(p[1], p[2])]_vars

(* A retry has returned with its feature completed while another feature    *)
(* holds test cases.                                                        *)
C5_Witness ==
    \E tid \in TaskIds :
       /\ tasks[tid].kind = "retry" /\ tasks[tid].pc = "done"
       /\ Feature(tasks[tid].b, tasks[tid].f).status = "completed"
       /\ \E p \in AllFeatures :
             /\ p # <<tasks[tid].b, tasks[tid].f>>
             /\ Feature(p[1], p[2]).items # <<>>

(* C6: the step that makes a retry call leaves the feature, if the re-run   *)
(* is then awaiting, generating with no error and no items; the step that   *)
(* ends the retry leaves the feature completed or failed and the batch      *)
(* status the one the feature statuses call for.                            *)
C6_RetrySynchronous ==
    [][\A tid \in 1..Len(tasks') :
          tasks'[tid].kind = "retry" =>
             LET t == tasks'[tid]
                 fr == batch_store'[t.b].features[t.f]
             IN /\ (tid \notin TaskIds /\ t.pc # "done") =>
                      fr = [status |-> "generating", items |-> <<>>, error |-> None]
                /\ Ends(tid) =>
                      /\ fr.status \in {"completed", "failed"}
                      /\ batch_store'[t.b].status = DerivedStatus(batch_store'[t.b])]_vars

(* A retry of a feature that had failed has returned, and the feature is    *)
(* completed.                                                               *)
C6_Witness ==
    \E tid, orig \in TaskIds :
       /\ tasks[tid].kind = "retry" /\ tasks[tid].pc = "done"
       /\ tasks[orig].kind = "feature" /\ tasks[orig].pc = "done"
       /\ <<tasks[orig].b, tasks[orig].f>> = <<tasks[tid].b, tasks[tid].f>>
       /\ tasks[orig].error # None
       /\ Feature(tasks[tid].b, tasks[tid].f).status = "completed"
       /\ batch_store[tasks[tid].b].status = "completed"

InLayer(t) == t.pc \in {"extract", "scenario_embeddings", "expand", "sleep"}

Floor(t) == MIN_SCENARIOS_PER_LAYER(Layers(t)[t.li])

(* C8: scenario extraction for a layer makes one provider call when the     *)
(* first answer meets the layer's floor and two when it falls short, never  *)
(* a third; the answer to the second call is accepted whatever its count.   *)
C8_ExtractionCalls ==
    \A tid \in TaskIds :
       LET t == tasks[tid]
       IN InLayer(t) =>
             /\ t.ecalls \in {1, 2}
             /\ (t.pc = "extract" /\ ~t.reprompt) => t.ecalls = 1
             /\ (t.pc = "extract" /\ t.reprompt) =>
                   (t.ecalls = 2 /\ t.existing >= 1 /\ t.existing < Floor(t))
             /\ t.pc # "extract" =>
                   /\ t.extracted >= 1
                   /\ t.ecalls = 1 => t.extracted >= Floor(t)

(* The second answer for the boundary layer was accepted below the floor    *)
(* of 8, and expansion has started.                                         *)
C8_Witness ==
    \E tid \in TaskIds :
       /\ tasks[tid].pc = "expand"
       /\ Layers(tasks[tid])[tasks[tid].li] = "boundary"
       /\ tasks[tid].ecalls = 2
       /\ tasks[tid].extracted = 3

(* C9: the layers started are a prefix of the level's layers, in their      *)
(* order and without repetition; while a layer is being generated, every    *)
(* accumulated case comes from an earlier layer; the generation returns     *)
(* after exactly the level's layers; for level low only core runs.          *)
C9_LayerOrder ==
    \A tid \in TaskIds :
       LET t == tasks[tid]
           layers == COVERAGE_LEVEL_LAYERS(t.level)
       IN /\ Len(t.ran) <= Len(layers)
          /\ t.ran = SubSeq(layers, 1, Len(t.ran))
          /\ InLayer(t) =>
                /\ Len(t.ran) = t.li
                /\ \A k \in 1..Len(t.acc) : t.acc[k].id[2] < t.li
          /\ t.pc = "ok" => t.ran = layers
          /\ t.level = "low" => (t.ran = <<>> \/ t.ran = <<"core">>)

C9_Witness ==
    \E tid \in TaskIds :
       /\ tasks[tid].pc = "ok"
       /\ tasks[tid].level = "comprehensive"
       /\ tasks[tid].ran = <<"core", "validation", "negative", "boundary", "state",
                              "security", "destructive">>
       /\ \E k \in 1..Len(tasks[tid].acc) : tasks[tid].acc[k].id[2] = 7

C11_FailureDiscardsLayers ==
    \A tid \in TaskIds :
       LET t == tasks[tid]
       IN (t.kind = "feature" /\ t.pc = "done" /\ t.error # None) =>
             /\ Feature(t.b, t.f).status = "failed"
             /\ Feature(t.b, t.f).items = <<>>
             /\ Feature(t.b, t.f).error = t.error
             /\ \A tc \in store : tc.id[1] # tid
             /\ \A p \in AllFeatures :
                   \A k \in 1..Len(Feature(p[1], p[2]).items) :
                      Feature(p[1], p[2]).items[k].id[1] # tid

(* The third layer of a feature failed after the first two had produced     *)
(* test cases, while its sibling completed.                                 *)
C11_Witness ==
    \E tid \in TaskIds :
       /\ tasks[tid].pc = "done"
       /\ tasks[tid].error = "LLM output is not valid JSON"
       /\ \E k \in 1..Len(tasks[tid].acc) : tasks[tid].acc[k].id[2] = 1
       /\ \E k \in 1..Len(tasks[tid].acc) : tasks[tid].acc[k].id[2] = 2
       /\ Feature(tasks[tid].b, tasks[tid].f).status = "failed"
       /\ \E p \in AllFeatures : Feature(p[1], p[2]).status = "completed"
                                 /\ Feature(p[1], p[2]).items # <<>>

(* C12: delete_test_case(id) for an id in the store returns true, removes   *)
(* the id from the store and from every feature's items and leaves every    *)
(* other test case (and the order of the items), every feature's status and *)
(* error, every batch status and every task unchanged; for an id not in the *)
(* store it returns false and changes nothing.                              *)
C12_DeleteFrame ==
    [][(call'.op = "delete_test_case" /\ deletes' = deletes + 1) =>
          LET id == call'.test_case_id
              present == \E tc \in store : tc.id = id
          IN /\ call'.out = present
             /\ tasks' = tasks /\ run_all' = run_all
             /\ ~present => (store' = store /\ batch_store' = batch_store)
             /\ present =>
                   /\ \A tc \in store' : tc.id # id
                   /\ \A tc \in store : tc.id # id => tc \in store'
                   /\ store' \subseteq store
                   /\ Len(batch_store') = Len(batch_store)
                   /\ \A p \in AllFeatures :
                         LET fr == Feature(p[1], p[2])
                             fr2 == batch_store'[p[1]].features[p[2]]
                         IN /\ fr2.status = fr.status /\ fr2.error = fr.error
                            /\ fr2.items = SelectSeq(fr.items, LAMBDA tc : tc.id # id)
                   /\ \A b \in 1..Len(batch_store) :
                         /\ batch_store'[b].status = batch_store[b].status
                         /\ Len(batch_store'[b].features) = Len(batch_store[b].features)]_vars

(* The first of a completed feature's two cases was deleted: the second is  *)
(* left in the items and in the store.                                      *)
C12_Witness ==
    /\ call.op = "delete_test_case" /\ call.out
    /\ \E p \in AllFeatures :
          /\ Feature(p[1], p[2]).status = "completed"
          /\ Len(Feature(p[1], p[2]).items) = 1
          /\ Feature(p[1], p[2]).items[1].id[3] = 2
          /\ Feature(p[1], p[2]).items[1] \in store
          /\ call.test_case_id[3] = 1

RECURSIVE CompletedCases(_)
CompletedCases(features) ==
    IF features = <<>> THEN <<>>
    ELSE (IF Head(features).status = "completed" THEN Head(features).items ELSE <<>>)
         \o CompletedCases(Tail(features))

(* C13: get_batch_merged_cases returns the items of the batch's completed   *)
(* features, and of no other feature, in feature order, with the title pass *)
(* applied to the whole when dedupe is set; the empty list for an unknown   *)
(* batch; and it changes neither the batch store nor the store.             *)
C13_MergedCases ==
    [][call'.op = "get_batch_merged_cases" =>
          LET b == call'.batch_id
              expected == IF b \in 1..Len(batch_store)
                          THEN CompletedCases(batch_store[b].features) ELSE <<>>
          IN /\ batch_store' = batch_store /\ store' = store
             /\ b \notin 1..Len(batch_store) => call'.out = <<>>
             /\ ~call'.dedupe => call'.out = expected
             /\ call'.dedupe => call'.out = remove_near_duplicate_titles(expected)]_vars

(* Both features of a batch completed with two cases each; the merged list  *)
(* with dedupe holds the two of the first feature.                          *)
C13_Witness ==
    /\ call.op = "get_batch_merged_cases" /\ call.dedupe
    /\ call.batch_id \in 1..Len(batch_store)
    /\ Len(batch_store[call.batch_id].features) = 2
    /\ \A f \in 1..2 : /\ Feature(call.batch_id, f).status = "completed"
                       /\ Len(Feature(call.batch_id, f).items) = 2
    /\ call.out = Feature(call.batch_id, 1).items

TitleCall == call.op = "_remove_near_duplicate_titles"

NearDuplicates(tc1, tc2) ==
    LET k1 == normalize_title(tc1.test_scenario)
        k2 == normalize_title(tc2.test_scenario)
    IN k1 = k2 \/ IsSubstring(k1, k2) \/ IsSubstring(k2, k1)

(* C14: title-based near-duplicate removal is idempotent: applied to its    *)
(* own output it returns that output.                                       *)
C14_TitleRemovalIdempotent ==
    TitleCall => remove_near_duplicate_titles(call.out) = call.out

(* C15: any two test cases in the output of the title-based removal are in  *)
(* the order they had in the input (the id of a case is its place there).   *)
C15_TitleRemovalKeepsOrder ==
    TitleCall =>
       \A i, j \in 1..Len(call.out) :
          i < j => call.out[i].id[3] < call.out[j].id[3]

(* C16: every test case the title-based removal drops has a near-duplicate  *)
(* in the output with at least its detail.                                  *)
C16_TitleRemovalKeepsMostDetailed ==
    TitleCall =>
       \A k \in 1..Len(call.cases) :
          (\A i \in 1..Len(call.out) : call.out[i] # call.cases[k]) =>
             \E i \in 1..Len(call.out) :
                /\ NearDuplicates(call.cases[k], call.out[i])
                /\ call.out[i].detail >= call.cases[k].detail

TestCaseResponses == {r \in ProviderResponses : r.kind = "test_cases"}

(* C17: each layer's validated cases are appended to the accumulated list;  *)
(* once the last layer is done, the list returned is the title pass of the  *)
(* embedding dedup of the accumulated list, for what the embeddings call    *)
(* answered (the embedding dedup keeps the whole list when it is not longer *)
(* than one case or no key is set), and nothing changes it after that.      *)
C17_DedupOrder ==
    [][\A tid \in TaskIds :
          LET t == tasks[tid]
              t2 == tasks'[tid]
          IN /\ (t.pc = "expand" /\ t2.pc \in {"extract", "case_embeddings"}) =>
                   \E resp \in TestCaseResponses :
                      t2.acc = t.acc \o Validated(resp.cases, tid, t.li)
             /\ (t.pc # "ok" /\ t2.pc = "ok") =>
                   /\ t2.ran = COVERAGE_LEVEL_LAYERS(t.level)
                   /\ t.pc \in {"expand", "case_embeddings"}
                   /\ t.pc = "case_embeddings" =>
                         /\ call'.op = "get_embeddings"
                         /\ t2.acc = remove_near_duplicate_titles(
                                        deduplicate_by_embeddings(t.acc, call'.out))
                   /\ t.pc = "expand" =>
                         \E resp \in TestCaseResponses :
                            LET all == t.acc \o Validated(resp.cases, tid, t.li)
                            IN /\ Len(all) <= 1 \/ ~openai_api_key
                               /\ t.li = Len(COVERAGE_LEVEL_LAYERS(t.level))
                               /\ t2.acc = remove_near_duplicate_titles(all)
             /\ t.pc = "ok" => t2 = t]_vars

(* A generation of three layers returned a single case, the more detailed  *)
(* one of the second layer: the embeddings call found only the first and    *)
(* the last case similar, the embedding dedup kept the others and the title *)
(* pass put that case in the place of the first layer's.                    *)
C17_Witness ==
    /\ call.op = "get_embeddings" /\ call.out.ok /\ call.out.sim # {}
    /\ \E tid \in TaskIds :
          /\ tasks[tid].pc = "ok"
          /\ tasks[tid].level = "medium"
          /\ Len(tasks[tid].acc) = 1
          /\ tasks[tid].acc[1].id = <<tid, 2, 1>>
          /\ tasks[tid].acc[1].detail = 2

ScenarioCall == call.op = "deduplicate_scenarios"

(* C18: with no embedding API key, deduplicate_scenarios returns its input  *)
(* list: the same texts in the same order.                                  *)
C18_NoKeyReturnsInput ==
    (ScenarioCall /\ ~call.api_key) => call.out = call.scenarios

(* Without a key, three scenarios of which the first two are equal once     *)
(* normalized came back as they were.                                       *)
C18_Witness ==
    /\ ScenarioCall /\ ~call.api_key
    /\ Len(call.scenarios) = 3
    /\ call.scenarios[1] # call.scenarios[2]
    /\ normalize_scenario_text(call.scenarios[1]) = normalize_scenario_text(call.scenarios[2])
    /\ call.out = call.scenarios

(* C19: with no embedding key, no two scenarios that deduplicate_scenarios  *)
(* returns are equal once normalized.                                       *)
C19_NoKeyLexicalDedup ==
    (ScenarioCall /\ ~call.api_key) =>
       \A i, j \in 1..Len(call.out) :
          i < j => normalize_scenario_text(call.out[i]) # normalize_scenario_text(call.out[j])

(* C20: a case the embedding dedup drops has, among the cases kept, one it  *)
(* is similar to whose detail is at least its own.                          *)
C20_EmbeddingDedupKeepsMostDetailed ==
    (call.op = "_deduplicate_by_embeddings" /\ call.embeddings.ok) =>
       \A j \in 1..Len(call.cases) :
          (\A i \in 1..Len(call.out) : call.out[i] # call.cases[j]) =>
             \E i \in 1..Len(call.cases) :
                /\ {i, j} \in call.embeddings.sim
                /\ \E k \in 1..Len(call.out) : call.out[k] = call.cases[i]
                /\ call.cases[i].detail >= call.cases[j].detail

----------------------------------------------------------------------------
(* Parsing of the LLM's answer.  A JSON object is held as Python holds it:  *)
(* its keys in insertion order, each with its value.                        *)

ObjKeySeq(parsed) == [i \in 1..Len(parsed) |-> parsed[i].key]

ObjKeys(parsed) == {parsed[i].key : i \in 1..Len(parsed)}

(* parsed[key] *)
ObjGet(parsed, key) == parsed[CHOOSE i \in 1..Len(parsed) : parsed[i].key = key].value

(* parsed without key, the other keys in their order *)
RECURSIVE ObjWithout(_, _)
ObjWithout(parsed, key) ==
    IF parsed = <<>> THEN <<>>
    ELSE IF Head(parsed).key = key THEN ObjWithout(Tail(parsed), key)
    ELSE <<Head(parsed)>> \o ObjWithout(Tail(parsed), key)

(* parsed[key] = value, for a key that parsed does not hold *)
ObjSet(parsed, key, value) == Append(parsed, [key |-> key, value |-> value])

(* What Python's == compares of two dicts: the keys and their values.       *)
AsDict(parsed) == [k \in ObjKeys(parsed) |-> ObjGet(parsed, k)]

keys_preview_len == 10

Prefix(s, n) == SubSeq(s, 1, IF Len(s) < n THEN Len(s) ELSE n)

(* Mutant: the alias replaces test_cases whenever testCases is there. *)
NormalizeKey_AliasAlways(parsed, expected_key) ==
    IF expected_key = "test_cases" /\ "testCases" \in ObjKeys(parsed)
    THEN ObjSet(ObjWithout(ObjWithout(parsed, "testCases"), "test_cases"),
                "test_cases", ObjGet(parsed, "testCases"))
    ELSE parsed

(* if key not in parsed and key == "test_cases" and "testCases" in parsed:  *)
(*     parsed["test_cases"] = parsed.pop("testCases")                       *)
NormalizeKey(parsed, expected_key) ==
    IF /\ expected_key \notin ObjKeys(parsed)
       /\ expected_key = "test_cases"
       /\ "testCases" \in ObjKeys(parsed)
    THEN ObjSet(ObjWithout(parsed, "testCases"), "test_cases", ObjGet(parsed, "testCases"))
    ELSE parsed

(* _parse_llm_response, for what stripping the text and parsing it gave     *)
(* (loaded): no text at all, text that is no JSON, a JSON value that is no  *)
(* object, or an object.                                                    *)
parse_llm_response(loaded, expected_key) ==
    CASE loaded.kind = "empty" ->
            [ok |-> FALSE, error |-> "LLM returned empty response"]
      [] loaded.kind = "invalid" ->
            [ok |-> FALSE, error |-> "LLM output is not valid JSON"]
      [] loaded.kind = "value" ->
            [ok |-> FALSE, error |-> "LLM output must be a JSON object"]
      [] loaded.kind = "object" ->
            LET parsed == NormalizeKey(loaded.value, expected_key)
            IN IF expected_key \notin ObjKeys(parsed)
               THEN [ok |-> FALSE, error |-> "missing expected key",
                     expected_key |-> expected_key,
                     keys |-> Prefix(ObjKeySeq(parsed), keys_preview_len)]
               ELSE [ok |-> TRUE, parsed |-> parsed]

ParseLlmResponse(loaded, expected_key) ==
    /\ call' = [op |-> "_parse_llm_response", loaded |-> loaded,
                expected_key |-> expected_key,
                out |-> parse_llm_response(loaded, expected_key)]
    /\ UNCHANGED <<store, batch_store, run_all, tasks, openai_api_key, retries, deletes,
                 _current_model_id>>

(* The objects the LLM may answer with: any of the keys below, in this      *)
(* order, the two spellings of the test-case key with either of two values. *)
KeyPool ==
    <<"k1", "testCases", "k2", "test_cases", "scenarios", "k3", "k4", "k5", "k6",
      "k7", "k8", "k9", "k10">>

KeyValues(key) == IF key \in {"test_cases", "testCases"} THEN {"cases1", "cases2"}
                  ELSE {"other"}

RECURSIVE Objects(_)
Objects(k) ==
    IF k > Len(KeyPool) THEN {<<>>}
    ELSE LET rest == Objects(k + 1)
         IN rest \cup {<<[key |-> KeyPool[k], value |-> v]>> \o o :
                          v \in KeyValues(KeyPool[k]), o \in rest}

Loaded ==
    {[kind |-> "empty"], [kind |-> "invalid"], [kind |-> "value"]}
       \cup {[kind |-> "object", value |-> o] : o \in Objects(1)}

ExpectedKeys == {"test_cases", "scenarios"}

----------------------------------------------------------------------------
(* Cleaning and validation of one raw test case of the LLM's answer.  A     *)
(* JSON value carries its type: a key that is absent, null, a number, a     *)
(* string (its characters; "S" stands for a lone surrogate) or a list.      *)

Missing == [t |-> "missing"]
Null == [t |-> "null"]
JStr(chars) == [t |-> "str", v |-> chars]
JList(elems) == [t |-> "list", v |-> elems]
JInt(d) == [t |-> "int", v |-> d]

TextFields ==
    {"test_scenario", "test_description", "pre_condition", "test_data", "expected_result"}

(* Python's str(x), for the values x that reach it. *)
PyStr(x) == IF x.t = "str" THEN x.v ELSE <<"0">>

(* re.sub(r"[\ud800-\udfff]", "", s) *)
sanitize_unicode(s) == SelectSeq(s, LAMBDA c : c # "S")

(* s.strip() *)
Strip(s) == RStrip(LStrip(s))

DefaultText(key) ==
    CASE key = "test_scenario" -> <<"T", "e", "s", "t", " ", "s", "c", "e", "n", "a", "r", "i", "o">>
      [] key = "test_description" -> <<"V", "e", "r", "i", "f", "y">>
      [] key = "pre_condition" -> <<"N", "o", " ", "p", "r", "e", "c", "o", "n", "d">>
      [] key = "test_data" -> <<"S", "t", "a", "n", "d", "a", "r", "d">>
      [] key = "expected_result" -> <<"B", "e", "h", "a", "v", "i", "o", "r">>

DefaultSteps == <<JStr(<<"1", ".", " ", "E", "x", "e", "c", "u", "t", "e">>)>>

(* if test_case_data.get(key) is not None:                                  *)
(*     test_case_data[key] = _san(str(test_case_data[key]))                 *)
SanitizedText(x) ==
    IF x.t \in {"missing", "null"} THEN x ELSE JStr(sanitize_unicode(PyStr(x)))

(* Mutant: the default is given only to a field that is absent or null. *)
TextOrDefault_KeepsBlank(x, key) ==
    IF x.t \in {"missing", "null"} THEN JStr(DefaultText(key)) ELSE x

(* if not (test_case_data.get(key) or "").strip():                          *)
(*     test_case_data[key] = <default>                                      *)
(* for x the value left by the sanitizing above.                            *)
TextOrDefault(x, key) ==
    LET text == IF x.t \in {"missing", "null"} \/ x.v = <<>> THEN <<>> ELSE x.v
    IN IF Strip(text) = <<>> THEN JStr(DefaultText(key)) ELSE x

(* steps = test_case_data.get("test_steps"); a list has each of its         *)
(* elements put through _san(str(s)).                                       *)
SanitizedSteps(x) ==
    IF x.t = "list"
    THEN JList([i \in 1..Len(x.v) |-> JStr(sanitize_unicode(PyStr(x.v[i])))])
    ELSE x

(* if not test_case_data.get("test_steps") or len(...) == 0: the default    *)
(* list.  An absent key, null, an empty list and an empty string are falsy. *)
StepsOrDefault(x) ==
    IF x.t \in {"missing", "null"} \/ (x.t \in {"list", "str"} /\ x.v = <<>>)
    THEN JList(DefaultSteps)
    ELSE x

clean_test_case_data(test_case_data) ==
    [key \in DOMAIN test_case_data |->
        IF key = "test_steps"
        THEN StepsOrDefault(SanitizedSteps(test_case_data[key]))
        ELSE TextOrDefault(SanitizedText(test_case_data[key]), key)]

(* constr(min_length=1) *)
IsConstr(x) == x.t = "str" /\ Len(x.v) >= 1

(* TestCase.model_validate(data): every textual field a string of at least  *)
(* one character, test_steps a list of at least one such string.            *)
model_validate(data) ==
    /\ \A key \in TextFields : IsConstr(data[key])
    /\ data.test_steps.t = "list"
    /\ Len(data.test_steps.v) >= 1
    /\ \A i \in 1..Len(data.test_steps.v) : IsConstr(data.test_steps.v[i])

(* TestCase.model_validate(self._clean_test_case_data(item)) for one item   *)
(* of the LLM's test_cases array: the TestCase created, or none when the    *)
(* validation raises.                                                       *)
CleanAndValidate(item) ==
    /\ call' = LET cleaned == clean_test_case_data(item)
               IN [op |-> "_clean_test_case_data", item |-> item, out |-> cleaned,
                   created |-> IF model_validate(cleaned) THEN {cleaned} ELSE {}]
    /\ UNCHANGED <<store, batch_store, run_all, tasks, openai_api_key, retries, deletes,
                 _current_model_id>>

(* What the LLM may put in a raw test case. *)
RawTexts ==
    {Missing, Null, JStr(<<>>), JStr(<<" ", "\t">>), JStr(<<"S">>), JStr(<<" ", "x">>),
     JInt(0)}

RawSteps ==
    {Missing, Null, JList(<<>>), JList(<<JStr(<<"x">>)>>), JList(<<JStr(<<"S">>)>>),
     JList(<<JInt(0), JStr(<<" ">>)>>), JStr(<<"x">>)}

RawItems ==
    {[key \in TextFields \cup {"test_steps"} |->
         IF key = "test_steps" THEN steps ELSE texts[key]] :
        texts \in [TextFields -> RawTexts], steps \in RawSteps}

----------------------------------------------------------------------------
(* JSON text, a sequence of characters, and the strict parse json.loads     *)
(* makes of it: an object, an array, a string (no escapes) or a number of   *)
(* digits 1, between optional spaces.  Each ...End operator gives the       *)
(* position after what it read from position i on, or 0 when the text does  *)
(* not parse there.  With lenient set, one comma may also follow the last   *)
(* element of an array or member of an object, and the comma between an     *)
(* object and the object after it in an array may be absent; json.loads     *)
(* never reads that way.                                                    *)

At(s, i) == IF i \in 1..Len(s) THEN s[i] ELSE "EOF"

RECURSIVE SkipWs(_, _)
SkipWs(s, i) == IF At(s, i) = " " THEN SkipWs(s, i + 1) ELSE i

RECURSIVE StringEnd(_, _)
StringEnd(s, i) ==
    IF i > Len(s) THEN 0 ELSE IF s[i] = "\"" THEN i + 1 ELSE StringEnd(s, i + 1)

RECURSIVE NumberEnd(_, _)
NumberEnd(s, i) == IF At(s, i) = "1" THEN NumberEnd(s, i + 1) ELSE i

RECURSIVE ValueEnd(_, _, _), ElementsEnd(_, _, _), MembersEnd(_, _, _)
ValueEnd(s, i, lenient) ==
    CASE At(s, i) = "1" -> NumberEnd(s, i)
      [] At(s, i) = "\"" -> StringEnd(s, i + 1)
      [] At(s, i) = "[" ->
            LET j == SkipWs(s, i + 1)
            IN IF At(s, j) = "]" THEN j + 1 ELSE ElementsEnd(s, j, lenient)
      [] At(s, i) = "{" ->
            LET j == SkipWs(s, i + 1)
            IN IF At(s, j) = "}" THEN j + 1 ELSE MembersEnd(s, j, lenient)
      [] OTHER -> 0

ElementsEnd(s, i, lenient) ==
    LET e == ValueEnd(s, i, lenient)
        j == SkipWs(s, e)
        k == SkipWs(s, j + 1)
    IN IF e = 0 THEN 0
       ELSE CASE At(s, j) = "]" -> j + 1
              [] At(s, j) = "," ->
                    IF lenient /\ At(s, k) = "]" THEN k + 1
                    ELSE ElementsEnd(s, k, lenient)
              [] lenient /\ At(s, j) = "{" /\ s[e - 1] = "}" -> ElementsEnd(s, j, lenient)
              [] OTHER -> 0

MembersEnd(s, i, lenient) ==
    LET name_end == IF At(s, i) = "\"" THEN StringEnd(s, i + 1) ELSE 0
        colon == SkipWs(s, name_end)
        e == IF name_end # 0 /\ At(s, colon) = ":"
             THEN ValueEnd(s, SkipWs(s, colon + 1), lenient) ELSE 0
        j == SkipWs(s, e)
        k == SkipWs(s, j + 1)
    IN IF e = 0 THEN 0
       ELSE CASE At(s, j) = "}" -> j + 1
              [] At(s, j) = "," ->
                    IF lenient /\ At(s, k) = "}" THEN k + 1
                    ELSE MembersEnd(s, k, lenient)
              [] OTHER -> 0

Parses(s, lenient) ==
    LET e == ValueEnd(s, SkipWs(s, 1), lenient)
    IN e # 0 /\ SkipWs(s, e) = Len(s) + 1

(* json.loads(text) returns (rather than raising JSONDecodeError) *)
json_loads(text) == Parses(text, FALSE)

(* re.sub(r",(\s*[}\]])", r"\1", text): every comma that only spaces part  *)
(* from a closing brace or bracket goes.                                    *)
RECURSIVE RemoveTrailingCommas(_, _)
RemoveTrailingCommas(s, i) ==
    IF i > Len(s) THEN <<>>
    ELSE IF s[i] = "," /\ At(s, SkipWs(s, i + 1)) \in {"}", "]"}
         THEN RemoveTrailingCommas(s, i + 1)
    ELSE <<s[i]>> \o RemoveTrailingCommas(s, i + 1)

(* re.sub(r"}\s*{", "}, {", repaired): a closing brace that only spaces    *)
(* part from an opening brace gets ", " in their place.                     *)
RECURSIVE InsertMissingCommas(_, _)
InsertMissingCommas(s, i) ==
    IF i > Len(s) THEN <<>>
    ELSE IF s[i] = "}" /\ At(s, SkipWs(s, i + 1)) = "{"
         THEN <<"}", ",", " ", "{">> \o InsertMissingCommas(s, SkipWs(s, i + 1) + 1)
    ELSE <<s[i]>> \o InsertMissingCommas(s, i + 1)

(* Mutant: only the trailing commas are repaired. *)
repair_json_TrailingOnly(text) == RemoveTrailingCommas(text, 1)

repair_json(text) == InsertMissingCommas(RemoveTrailingCommas(text, 1), 1)

(* _parse_json_lenient: the text whose parse is returned and what parsed    *)
(* it, or the JSONDecodeError raised.  json_repair (an optional package)    *)
(* is asked only when the repaired text does not parse either.              *)
parse_json_lenient(text, json_repair) ==
    IF json_loads(text)
    THEN [ok |-> TRUE, loaded |-> text, by |-> "json", repaired |-> FALSE]
    ELSE IF json_loads(repair_json(text))
         THEN [ok |-> TRUE, loaded |-> repair_json(text), by |-> "json", repaired |-> TRUE]
    ELSE IF json_repair
         THEN [ok |-> TRUE, loaded |-> repair_json(text), by |-> "json_repair",
               repaired |-> TRUE]
    ELSE [ok |-> FALSE, loaded |-> <<>>, by |-> "json", repaired |-> TRUE]

ParseJsonLenient(text, json_repair) ==
    /\ call' = [op |-> "_parse_json_lenient", text |-> text, json_repair |-> json_repair,
                out |-> parse_json_lenient(text, json_repair)]
    /\ UNCHANGED <<store, batch_store, run_all, tasks, openai_api_key, retries, deletes,
                 _current_model_id>>

(* The texts parsed: every text of up to MaxTextLen of the characters       *)
(* below, and some longer ones with members in their objects.               *)
MaxTextLen == 5

JsonChars == {"[", "]", "{", "}", ",", "\"", "1", " "}

LongTexts ==
    { <<"{", "\"", "a", "\"", ":", " ", "[", "1", ",", " ", "]", ",", "}">>,
      <<"{", "\"", "a", "\"", ":", "[", "{", "}", " ", "{", "}", "]", "}">>,
      <<"[", "{", "\"", "a", "\"", ":", "1", ",", "}", "{", "\"", "}", "{", "\"", ":",
        "1", "}", ",", " ", "]">>,
      <<"{", "\"", ",", "}", "\"", ":", "\"", "}", " ", "{", "\"", ",", "}">>,
      <<"{", "\"", ",", "}", "\"", ":", "\"", "}", " ", "{", "\"", "}">>,
      <<"[", "{", "}", "{", "}", "{", "}", ",", "1", ",", "]">>,
      <<"{", "\"", "a", "\"", ":", "1", ",", ",", "}">>,
      <<"{", "\"", "a", "\"", ":", "{", "}", "{", "}", "}">>,
      <<"{", ",", "}">> }

JsonTexts == (UNION {[1..n -> JsonChars] : n \in 0..MaxTextLen}) \cup LongTexts

----------------------------------------------------------------------------
(* Token allocation (utils/token_allocation.py).                            *)

COVERAGE_MAX_TOKENS(coverage_level) ==
    CASE coverage_level = "low" -> 1000
      [] coverage_level = "medium" -> 2500
      [] coverage_level = "high" -> 5000
      [] coverage_level = "comprehensive" -> 7000

DEFAULT_COVERAGE_MAX_TOKENS == 2500

SAFETY_BUFFER_TOKENS == 1000

CoverageLevels == {"low", "medium", "high", "comprehensive"}

(* _get_context_window: the size of the first key of `windows` that the     *)
(* model name contains, 128k when it contains none.  "gpt-4-32k" contains   *)
(* "gpt-4", which comes first.                                              *)
get_context_window(model_name) ==
    CASE model_name \in {"gpt-4o-mini", "gpt-4o", "gpt-4-turbo"} -> 128000
      [] model_name \in {"gpt-4", "gpt-4-32k"} -> 8192
      [] model_name = "gpt-3.5-turbo" -> 16385
      [] OTHER -> 128000

PyMax(a, b) == IF a >= b THEN a ELSE b

PyMin(a, b) == IF a <= b THEN a ELSE b

(* Mutant: the budget left in the context is not floored at zero. *)
Available_Unfloored(effective_cap, prompt_tokens, safety_buffer) ==
    effective_cap - prompt_tokens - safety_buffer

(* available = max(0, effective_cap - prompt_tokens - safety_buffer) *)
Available(effective_cap, prompt_tokens, safety_buffer) ==
    PyMax(0, effective_cap - prompt_tokens - safety_buffer)

(* calculate_dynamic_max_tokens as its caller (the OpenAI provider) calls   *)
(* it: the window looked up by model name, the default buffer and fraction. *)
(* prompt_tokens is what _estimate_prompt_tokens gives for the prompt.      *)
(* int(model_limit * 0.70) is 7 * model_limit \div 10 for each window of    *)
(* _get_context_window (the float product truncates to 89600, 5734, 11469). *)
calculate_dynamic_max_tokens(prompt_tokens, coverage_level, model_name) ==
    LET model_limit == get_context_window(model_name)
        effective_cap == (model_limit * 7) \div 10
        available == Available(effective_cap, prompt_tokens, SAFETY_BUFFER_TOKENS)
        coverage_cap == IF coverage_level \in CoverageLevels
                        THEN COVERAGE_MAX_TOKENS(coverage_level)
                        ELSE DEFAULT_COVERAGE_MAX_TOKENS
    IN PyMin(available, coverage_cap)

CalculateDynamicMaxTokens(prompt_tokens, coverage_level, model_name) ==
    /\ call' = [op |-> "calculate_dynamic_max_tokens", prompt_tokens |-> prompt_tokens,
                coverage_level |-> coverage_level, model_name |-> model_name,
                model_limit |-> get_context_window(model_name),
                out |-> calculate_dynamic_max_tokens(prompt_tokens, coverage_level,
                                                     model_name)]
    /\ UNCHANGED <<store, batch_store, run_all, tasks, openai_api_key, retries, deletes,
                   _current_model_id>>

(* Prompts of up to MaxPromptTokens tokens, and some that fill the larger   *)
(* windows.                                                                 *)
MaxPromptTokens == 6000

PromptTokens == 0..MaxPromptTokens \cup {10468, 10469, 10470, 81600, 88599, 88600, 127000}

ModelNames == {"gpt-4o-mini", "gpt-4", "gpt-4-32k", "gpt-3.5-turbo", "other"}

----------------------------------------------------------------------------
(* The request schema's mapping of the deprecated number_of_cases           *)
(* (schemas/testcase.py).                                                   *)

(* Mutant: the thresholds are exclusive. *)
number_of_cases_to_coverage_level_Exclusive(n) ==
    IF n < 5 THEN "low"
    ELSE IF n < 15 THEN "medium"
    ELSE IF n < 30 THEN "high"
    ELSE "comprehensive"

number_of_cases_to_coverage_level(n) ==
    IF n <= 5 THEN "low"
    ELSE IF n <= 15 THEN "medium"
    ELSE IF n <= 30 THEN "high"
    ELSE "comprehensive"

(* number_of_cases: Optional[conint(ge=1, le=200)] *)
max_number_of_cases == 200

(* GenerateTestCasesRequest built from a body giving number_of_cases (a     *)
(* number or null) and coverage_level (None when the body has none): the    *)
(* "before" validator map_number_of_cases_to_coverage, then the fields'     *)
(* validation, coverage_level defaulting to medium.                         *)
GenerateTestCasesRequest(number_of_cases, coverage_level) ==
    LET data == IF number_of_cases # Null
                THEN [number_of_cases |-> number_of_cases,
                      coverage_level |->
                         number_of_cases_to_coverage_level(number_of_cases.v)]
                ELSE [number_of_cases |-> number_of_cases, coverage_level |-> coverage_level]
        level == IF data.coverage_level = None THEN "medium" ELSE data.coverage_level
    IN IF /\ level \in CoverageLevels
          /\ \/ data.number_of_cases = Null
             \/ data.number_of_cases.v \in 1..max_number_of_cases
       THEN [ok |-> TRUE, coverage_level |-> level, number_of_cases |-> data.number_of_cases]
       ELSE [ok |-> FALSE]

ValidateRequest(number_of_cases, coverage_level) ==
    /\ call' = [op |-> "GenerateTestCasesRequest", number_of_cases |-> number_of_cases,
                coverage_level |-> coverage_level,
                out |-> GenerateTestCasesRequest(number_of_cases, coverage_level)]
    /\ UNCHANGED <<store, batch_store, run_all, tasks, openai_api_key, retries, deletes,
                   _current_model_id>>

(* What a body may give: a count in or just out of range, or none; one of   *)
(* the levels, an unknown one, or none.                                     *)
BodyCounts == {Null} \cup {JInt(n) : n \in 0..(max_number_of_cases + 1)}

BodyLevels == CoverageLevels \cup {"other", None}

(* The parsing and allocation functions called on their own: one call per   *)
(* behaviour.                                                               *)
----------------------------------------------------------------------------
(* The error mapping of POST /ai-generate (api/testcases.py).  A text is a  *)
(* sequence of words; the fixed parts of a message are one word each.       *)

MaxWords == 3

Words == {"API", " ", "key", "x"}

(* Raw model output that does not parse as JSON. *)
ModelTexts == UNION {[1..n -> Words] : n \in 0..MaxWords}

snippet_len == 300

(* snippet = (cleaned[:300] + "...") if len(cleaned) > 300 else cleaned *)
Snippet(cleaned) ==
    IF Len(cleaned) > snippet_len THEN SubSeq(cleaned, 1, snippet_len) \o <<"...">>
    ELSE cleaned

(* The ValueError _parse_llm_response raises for a response_text that is    *)
(* empty, blank or not JSON.                                                *)
ParseErrorMessage(response_text) ==
    LET cleaned == RStrip(LStrip(response_text))
    IN IF cleaned = <<>> THEN <<"LLM returned empty response; expected JSON object.">>
       ELSE <<"LLM output is not valid JSON: ", "Expecting value", ". ",
              "Content received (first 300 chars): ">> \o Snippet(cleaned)

(* What generate_ai_test_cases may raise: the two ValueErrors of            *)
(* get_provider, a provider's request failure, and the malformed-output     *)
(* ValueErrors.                                                             *)
Failures ==
    {[cause |-> "unsupported", type |-> "ValueError",
      msg |-> <<"Unsupported LLM provider", ": ", "'bogus'">>],
     [cause |-> "credentials", type |-> "ValueError",
      msg |-> <<"OpenAI", " ", "API", " ", "key", " ", "is required">>],
     [cause |-> "request", type |-> "Exception", msg |-> <<"connection refused">>],
     [cause |-> "malformed", type |-> "ValueError", msg |-> <<"LLM returned no scenarios">>]}
    \cup {[cause |-> "malformed", type |-> "ValueError", msg |-> ParseErrorMessage(text)] :
             text \in ModelTexts}

ClientErrorMarkers == {<<"Unsupported LLM provider">>, <<"API", " ", "key">>}

(* The except clauses of generate_test_cases_with_ai: the status of the     *)
(* HTTPException raised.                                                    *)
StatusFor(exc) ==
    IF exc.type = "ValueError"
    THEN IF \E marker \in ClientErrorMarkers : IsSubstring(marker, exc.msg) THEN 400
         ELSE 502
    ELSE 502

GenerateTestCasesWithAi(exc) ==
    /\ call' = [op |-> "generate_test_cases_with_ai", exc |-> exc, status |-> StatusFor(exc)]
    /\ UNCHANGED <<store, batch_store, run_all, tasks, openai_api_key, retries, deletes,
                 _current_model_id>>

----------------------------------------------------------------------------
(* OllamaProvider.generate_test_cases (providers/ollama_provider.py) on     *)
(* what each HTTP attempt meets: a 200 whose JSON has a string response     *)
(* ("ok"), a 200 whose JSON has none ("ok_text", the body text is           *)
(* returned), a body that is not JSON ("bad_json", the ValueError of        *)
(* response.json() is not caught), httpx.RequestError or                    *)
(* httpx.HTTPStatusError.                                                   *)

max_retries == 3

backoff_base_seconds == 1

MaxHttp == 4

HttpOutcomes == {"ok", "ok_text", "bad_json", "RequestError", "HTTPStatusError"}

HttpRuns == [1..MaxHttp -> HttpOutcomes]

(* Mutant: every wait is the base wait. *)
Backoff_Flat(attempt) == backoff_base_seconds

(* backoff_base_seconds * (2 ** (attempt - 1)) *)
Backoff(attempt) == backoff_base_seconds * 2 ^ (attempt - 1)

(* The loop `for attempt in range(1, max_retries + 1)` from attempt on;     *)
(* events are the posts and sleeps made so far.                             *)
RECURSIVE OllamaLoop(_, _, _, _)
OllamaLoop(outcomes, attempt, events, last_error) ==
    IF attempt > max_retries THEN [events |-> events, raised |-> last_error, out |-> None]
    ELSE LET o == outcomes[attempt]
             posted == Append(events, [ev |-> "post", attempt |-> attempt])
         IN IF o \in {"ok", "ok_text"}
            THEN [events |-> posted, raised |-> None, out |-> o]
            ELSE IF o = "bad_json"
            THEN [events |-> posted, raised |-> "ValueError", out |-> None]
            ELSE IF attempt >= max_retries
            THEN [events |-> posted, raised |-> o, out |-> None]
            ELSE OllamaLoop(outcomes, attempt + 1,
                            Append(posted, [ev |-> "sleep", seconds |-> Backoff(attempt)]),
                            o)

ollama_generate_test_cases(outcomes) == OllamaLoop(outcomes, 1, <<>>, None)

OllamaGenerate(outcomes) ==
    /\ call' = [op |-> "OllamaProvider.generate_test_cases", outcomes |-> outcomes,
                result |-> ollama_generate_test_cases(outcomes)]
    /\ UNCHANGED <<store, batch_store, run_all, tasks, openai_api_key, retries, deletes,
                 _current_model_id>>

NextParse ==
    \/ /\ call = NoCall
       /\ \E outcomes \in HttpRuns : OllamaGenerate(outcomes)
    \/ /\ call = NoCall
       /\ \E exc \in Failures : GenerateTestCasesWithAi(exc)
    \/ /\ call = NoCall
       /\ \E loaded \in Loaded, expected_key \in ExpectedKeys :
             ParseLlmResponse(loaded, expected_key)
    \/ /\ call = NoCall
       /\ \E item \in RawItems : CleanAndValidate(item)
    \/ /\ call = NoCall
       /\ \E text \in JsonTexts, json_repair \in BOOLEAN :
             ParseJsonLenient(text, json_repair)
    \/ /\ call = NoCall
       /\ \E prompt_tokens \in PromptTokens, coverage_level \in CoverageLevels \cup {"other"},
             model_name \in ModelNames :
             CalculateDynamicMaxTokens(prompt_tokens, coverage_level, model_name)
    \/ /\ call = NoCall
       /\ \E number_of_cases \in BodyCounts, coverage_level \in BodyLevels :
             ValidateRequest(number_of_cases, coverage_level)

SpecParse == Init /\ [][NextParse]_vars

ParseCall == call.op = "_parse_llm_response"

(* In place of testCases, the same content under test_cases. *)
Canonical(parsed) ==
    [i \in 1..Len(parsed) |->
        IF parsed[i].key = "testCases"
        THEN [key |-> "test_cases", value |-> parsed[i].value]
        ELSE parsed[i]]

(* C21: for the expected key test_cases, an object with testCases and no    *)
(* test_cases is accepted and gives the dict that the same content under    *)
(* test_cases gives; an object with test_cases comes back as it is, its     *)
(* testCases (if any) left alone; an object with neither key is rejected    *)
(* with an error that names its keys (the first ten of them).               *)
C21_KeyAlias ==
    (ParseCall /\ call.loaded.kind = "object" /\ call.expected_key = "test_cases") =>
       LET parsed == call.loaded.value
           keys == ObjKeys(parsed)
       IN /\ ("testCases" \in keys /\ "test_cases" \notin keys) =>
                /\ call.out.ok
                /\ parse_llm_response([kind |-> "object", value |-> Canonical(parsed)],
                                      "test_cases").ok
                /\ AsDict(call.out.parsed) =
                      AsDict(parse_llm_response([kind |-> "object",
                                                 value |-> Canonical(parsed)],
                                                "test_cases").parsed)
          /\ "test_cases" \in keys => (call.out.ok /\ call.out.parsed = parsed)
          /\ ("testCases" \notin keys /\ "test_cases" \notin keys) =>
                /\ ~call.out.ok
                /\ call.out.error = "missing expected key"
                /\ call.out.keys = Prefix(ObjKeySeq(parsed), keys_preview_len)
                /\ Len(parsed) <= keys_preview_len => call.out.keys = ObjKeySeq(parsed)

(* An object whose test cases are under testCases, between other keys, was  *)
(* accepted: the result holds them under test_cases and has no testCases.   *)
C21_Witness ==
    /\ ParseCall /\ call.expected_key = "test_cases"
    /\ call.loaded.kind = "object"
    /\ ObjKeys(call.loaded.value) = {"k1", "testCases", "scenarios"}
    /\ call.out.ok
    /\ ObjKeys(call.out.parsed) = {"k1", "test_cases", "scenarios"}
    /\ ObjGet(call.out.parsed, "test_cases") = ObjGet(call.loaded.value, "testCases")

CleanCall == call.op = "_clean_test_case_data"

Blank(x) == x.t \in {"missing", "null"} \/ (x.t = "str" /\ Strip(x.v) = <<>>)

JsonCall == call.op = "_parse_json_lenient"

(* C23: a text that is JSON but for trailing commas before a closing brace  *)
(* or bracket and missing commas between an object and the next is parsed   *)
(* by json.loads, from the text _repair_json made of it when it does not    *)
(* parse as it is; a text that parses as it is is parsed as it is, and      *)
(* only a text whose strict parse failed is repaired.                       *)
C23_RepairParses ==
    JsonCall =>
       /\ Parses(call.text, TRUE) =>
             /\ call.out.ok /\ call.out.by = "json"
             /\ json_loads(call.out.loaded)
             /\ ~json_loads(call.text) => json_loads(repair_json(call.text))
       /\ json_loads(call.text) => (call.out.loaded = call.text /\ ~call.out.repaired)
       /\ call.out.repaired => ~json_loads(call.text)

(* A text with a trailing comma in an array, one in an object and a missing *)
(* comma between two objects, one of them with "}{" in a member name, did   *)
(* not parse as it was and parsed once repaired.                            *)
C23_Witness ==
    /\ JsonCall
    /\ call.text = <<"[", "{", "\"", "a", "\"", ":", "1", ",", "}", "{", "\"", "}", "{",
                     "\"", ":", "1", "}", ",", " ", "]">>
    /\ ~json_loads(call.text)
    /\ call.out.ok /\ call.out.repaired /\ call.out.by = "json"
    /\ call.out.loaded = <<"[", "{", "\"", "a", "\"", ":", "1", "}", ",", " ", "{", "\"",
                           "}", ",", " ", "{", "\"", ":", "1", "}", " ", "]">>

----------------------------------------------------------------------------
(* Generations that name their model: a single-feature call and batches of  *)
(* one feature each, running side by side.                                  *)

ModelIds == {None, "gpt-4o", "llama3.2:3b", "no-such-model"}

OneFeatureLists == [1..1 -> BatchLevels]

MaxGenerations == 2

Generations == Len(batch_store) + Cardinality({i \in 1..Len(tasks) : tasks[i].kind = "single"})

NextModels ==
    \/ \E model_id \in ModelIds :
          Generations < MaxGenerations /\ GenerateSingle("low", None, model_id)
    \/ \E model_id \in ModelIds, configs \in OneFeatureLists :
          Generations < MaxGenerations /\ StartBatch(None, model_id, configs)
    \/ \E b \in 1..Len(batch_store) : RunAll(b)
    \/ \E tid \in Awaiting({"created"}) : RunOneFeature(tid)
    \/ \E b \in 1..Len(batch_store) : RunAllDone(b)
    \/ Pipeline(ExportResponses, FALSE, BatchSimProfiles)

SpecModels == Init /\ [][NextModels]_vars

Unresolvable(model_id) == model_id # None /\ model_id_to_provider(model_id) = None

(* C24: a generation whose model id resolves to no provider has made no     *)
(* provider call and returned no cases: once begun, it has raised the       *)
(* unsupported-provider error.                                              *)
C24_UnresolvableModelRejected ==
    \A tid \in TaskIds :
       (Unresolvable(tasks[tid].model_id) /\ tasks[tid].pc # "created") =>
          /\ tasks[tid].pc \in {"raise", "done"}
          /\ tasks[tid].error = "Unsupported LLM provider"
          /\ tasks[tid].provider = None

(* C28: the provider call a generation is waiting on carries the model id   *)
(* of that generation's own request.                                        *)
C28_OwnModelId ==
    \A tid \in Awaiting({"extract", "expand"}) : tasks[tid].sent = tasks[tid].model_id

TokenCall == call.op = "calculate_dynamic_max_tokens"

ClaimedCap(coverage_level) ==
    CASE coverage_level = "low" -> 1000
      [] coverage_level = "medium" -> 2500
      [] coverage_level = "high" -> 5000
      [] coverage_level = "comprehensive" -> 7000
      [] OTHER -> 2500

LevelOrder == <<"low", "medium", "high", "comprehensive">>

IsPrefixOf(s, t) == Len(s) <= Len(t) /\ SubSeq(t, 1, Len(s)) = s

(* C26: the layers of the level a generation runs at are a prefix of the    *)
(* layers of every higher level, each level's layers are a subset of the    *)
(* next level's, and every layer has a focus text and a scenario floor.     *)
C26_LayersCumulative ==
    \A tid \in TaskIds :
       \A i, j \in 1..Len(LevelOrder) :
          (tasks[tid].level = LevelOrder[i] /\ i <= j) =>
             /\ IsPrefixOf(Layers(tasks[tid]), COVERAGE_LEVEL_LAYERS(LevelOrder[j]))
             /\ Range(Layers(tasks[tid])) \subseteq Range(COVERAGE_LEVEL_LAYERS(LevelOrder[j]))
             /\ \A layer \in Range(COVERAGE_LEVEL_LAYERS(LevelOrder[j])) :
                   /\ layer \in DOMAIN LAYER_FOCUS /\ LAYER_FOCUS[layer] # ""
                   /\ layer \in FloorLayers /\ MIN_SCENARIOS_PER_LAYER(layer) >= 1

(* A generation at the high level has begun its fifth and last layer: the   *)
(* three layers of the medium level came first, in the same order.          *)
C26_Witness ==
    \E tid \in TaskIds :
       /\ tasks[tid].level = "high"
       /\ tasks[tid].ran = <<"core", "validation", "negative", "boundary", "state">>
       /\ SubSeq(tasks[tid].ran, 1, 3) = COVERAGE_LEVEL_LAYERS("medium")

RequestCall == call.op = "GenerateTestCasesRequest"

LevelRank(level) == CHOOSE i \in 1..Len(LevelOrder) : LevelOrder[i] = level

(* C27: a request with number_of_cases n in 1..200 is accepted with the     *)
(* coverage level low for n <= 5, medium for 6..15, high for 16..30 and     *)
(* comprehensive above 30, whatever coverage_level the body gave; and the   *)
(* level of no smaller count is higher.                                     *)
C27_CountToLevel ==
    (RequestCall /\ call.number_of_cases # Null /\ call.number_of_cases.v \in 1..200) =>
       LET n == call.number_of_cases.v
       IN /\ call.out.ok
          /\ n \in 1..5 => call.out.coverage_level = "low"
          /\ n \in 6..15 => call.out.coverage_level = "medium"
          /\ n \in 16..30 => call.out.coverage_level = "high"
          /\ n \in 31..200 => call.out.coverage_level = "comprehensive"
          /\ \A m \in 1..n :
                LevelRank(GenerateTestCasesRequest(JInt(m),
                                                   call.coverage_level).coverage_level)
                   <= LevelRank(call.out.coverage_level)

(* A body asking for 16 cases and the low level was accepted at the high    *)
(* level.                                                                   *)
C27_Witness ==
    /\ RequestCall /\ call.number_of_cases = JInt(16) /\ call.coverage_level = "low"
    /\ call.out.ok /\ call.out.coverage_level = "high"

----------------------------------------------------------------------------
(* The scenario embedding cache of one generation run, on the scenario      *)
(* texts themselves.  The embeddings held or fetched are taken to be        *)
(* pairwise below the threshold.                                            *)

(* cache=scenario_embedding_cache or {} in _generate_layer: the dict        *)
(* deduplicate_scenarios gets is the run's own when that one holds          *)
(* something; an empty dict is falsy, and a new dict is passed instead.     *)
PassesRunCache(cache) == cache # {}

UniqueNorm(scenarios) ==
    LET unique_orig == UniqueOrig(scenarios, 1, {})
    IN {normalize_scenario_text(unique_orig[i]) : i \in 1..Len(unique_orig)}

(* Mutant: the answer to the re-prompt is added to the scenarios of the     *)
(* first answer.                                                            *)
ExtractedScenarios_Merged(existing_scenarios, scenarios) ==
    existing_scenarios \o scenarios

(* What _extract_scenarios returns once an answer is accepted: the list of  *)
(* that answer.  existing_scenarios, set in the re-prompt, goes into the    *)
(* prompt only.                                                             *)
ExtractedScenarios(existing_scenarios, scenarios) == scenarios

(* The extraction call of task tid answered with the scenario texts given:  *)
(* the rest of _extract_scenarios (a re-prompt carries the answer as        *)
(* existing_scenarios), then deduplicate_scenarios up to the request        *)
(* get_embeddings_cached makes for the texts its cache lacks (with none     *)
(* lacking it returns at once).                                             *)
ScenarioTextsAnswer(tid, scenarios) ==
    /\ tasks[tid].pc = "extract"
    /\ LET t == tasks[tid]
           out == ExtractedScenarios(t.existing_scenarios, scenarios)
           t1 == OnScenarios(t, [kind |-> "scenarios", n |-> Len(scenarios), cases |-> <<>>],
                             openai_api_key, Len(UniqueOrig(out, 1, {})))
           t2 == [t1 EXCEPT !.existing_scenarios =
                               IF t1.pc = "extract" THEN scenarios ELSE <<>>]
           shared == PassesRunCache(t.cache)
           to_fetch == IF shared THEN UniqueNorm(out) \ t.cache ELSE UniqueNorm(out)
       IN /\ IF t2.pc # "scenario_embeddings" THEN Settle(tid, t2, batch_store, tasks)
             ELSE IF to_fetch = {}
                  THEN Settle(tid, OnScenarioEmbeddings(t2, [ok |-> TRUE, sim |-> {}],
                                                        "same", openai_api_key),
                              batch_store, tasks)
             ELSE Settle(tid, [t2 EXCEPT !.requested = to_fetch, !.shared = shared],
                         batch_store, tasks)
          /\ call' = [op |-> "_extract_scenarios", tid |-> tid,
                      existing_scenarios |-> t.existing_scenarios,
                      response |-> scenarios,
                      returned |-> t1.pc # "extract",
                      out |-> IF t1.pc # "extract" THEN out ELSE <<>>]
    /\ UNCHANGED <<run_all, openai_api_key, retries, deletes, _current_model_id>>

(* client.embeddings.create answered (ok) or raised: the fetched texts go   *)
(* into the dict get_embeddings_cached was given, and the dedup ends.       *)
EmbeddingsCreateAnswers(tid, ok) ==
    /\ tasks[tid].pc = "scenario_embeddings"
    /\ tasks[tid].requested # {}
    /\ LET t == tasks[tid]
           t1 == IF ok
                 THEN [t EXCEPT !.cache = IF t.shared THEN @ \cup t.requested ELSE @,
                                !.fetched = @ \cup t.requested,
                                !.requested = {}, !.shared = FALSE]
                 ELSE [t EXCEPT !.requested = {}, !.shared = FALSE]
       IN Settle(tid, OnScenarioEmbeddings(t1, [ok |-> ok, sim |-> {}], "same",
                                           openai_api_key),
                 batch_store, tasks)
    /\ UNCHANGED <<run_all, openai_api_key, retries, deletes, _current_model_id>>
    /\ call' = [op |-> "embeddings.create", input |-> tasks[tid].requested, ok |-> ok]

CacheScenarioTexts == {<<"a">>, <<"A", " ">>, <<"b">>}

CacheScenarioLists == UNION {[1..n -> CacheScenarioTexts] : n \in 1..MaxCases}

(* One generation of three layers, with an embedding key. *)
NextCache ==
    \/ openai_api_key /\ GenerateSingle("medium", None, None)
    \/ \E tid \in Resumable({"extract"}), scenarios \in CacheScenarioLists :
          ScenarioTextsAnswer(tid, scenarios)
    \/ \E tid \in Resumable({"scenario_embeddings"}), ok \in BOOLEAN :
          EmbeddingsCreateAnswers(tid, ok)
    \/ \E tid \in Resumable({"expand"}), resp \in TestCaseResponses :
          ProviderAnswers(tid, resp, 0)
    \/ \E tid \in Resumable({"case_embeddings"}) :
          \E embeddings \in EmbeddingResponses(Len(tasks[tid].acc), BatchSimProfiles) :
             EmbeddingsAnswer(tid, embeddings, "same")

SpecCache == Init /\ [][NextCache]_vars

(* C29: a generation with an embedding key never asks the embeddings        *)
(* backend for a normalized scenario text it has fetched before, in an      *)
(* earlier layer of the same run.                                           *)
C29_CachedAcrossLayers ==
    \A tid \in Awaiting({"scenario_embeddings"}) :
       tasks[tid].requested \cap tasks[tid].fetched = {}

----------------------------------------------------------------------------
(* C30: the output of the title-based removal holds no two test cases with  *)
(* near-duplicate titles (normalized titles equal, or one a substring of    *)
(* the other), whatever the input list.                                     *)
C30_OutputFreeOfNearDuplicates ==
    TitleCall =>
       \A i, j \in 1..Len(call.out) :
          i # j => ~NearDuplicates(call.out[i], call.out[j])

----------------------------------------------------------------------------
(* The elements of s at the places in K, in the order of s. *)
SubSeqAt(s, K) ==
    LET at == SelectSeq([i \in 1..Len(s) |-> i], LAMBDA i : i \in K)
    IN [k \in 1..Len(at) |-> s[at[k]]]

(* C31: when the embeddings are there, what deduplicate_scenarios returns   *)
(* is the scenarios at some places of the lexically unique list, in their   *)
(* original order, no two of them with embeddings at or above the           *)
(* threshold.                                                               *)
C31_ScenariosPairwiseDistinct ==
    (ScenarioCall /\ call.api_key /\ call.embeddings.ok) =>
       LET unique_orig == UniqueOrig(call.scenarios, 1, {})
       IN Len(unique_orig) > 1 =>
             \E K \in SUBSET (1..Len(unique_orig)) :
                /\ call.out = SubSeqAt(unique_orig, K)
                /\ \A i, j \in K : i # j => {i, j} \notin call.embeddings.sim

----------------------------------------------------------------------------
(* Single-feature generations with every provider call on record. *)
CallLevels == {"low", "medium"}

CallProviders == {None, "openai"}

NextCalls ==
    \/ \E level \in CallLevels, provider \in CallProviders :
          GenerateSingle(level, provider, None)
    \/ \E tid \in Resumable({"extract", "expand"}), resp \in ProviderResponses,
          u \in 0..MaxScenarios :
          /\ u \in {0, resp.n}
          /\ ProviderCallReturns(tid, resp, u)
    \/ \E tid \in Resumable({"scenario_embeddings", "case_embeddings"}) :
          \E embeddings \in EmbeddingResponses(IF tasks[tid].pc = "case_embeddings"
                                               THEN Len(tasks[tid].acc)
                                               ELSE tasks[tid].scen, BatchSimProfiles) :
             EmbeddingsAnswer(tid, embeddings, "same")
    \/ \E tid \in Resumable({"sleep"}) : Wake(tid)

SpecCalls == Init /\ [][NextCalls]_vars

ProviderCall == call.op = "provider.generate_test_cases"

(* An answer that gives _extract_scenarios no scenario: text that does not  *)
(* parse to an object with a scenarios array, or an empty list.             *)
MalformedScenarios(resp) ==
    \/ resp.kind \in {"malformed", "test_cases"}
    \/ resp.kind = "scenarios" /\ resp.n = 0

(* C32: a malformed answer to a scenario-extraction call ends the           *)
(* generation with an error at once: the layer has made that one provider   *)
(* call, or two when the answer was to the re-prompt, and makes no          *)
(* expansion call.                                                          *)
C32_MalformedScenariosNotRetried ==
    (ProviderCall /\ call.at = "extract" /\ MalformedScenarios(call.resp)) =>
       LET t == tasks[call.tid]
       IN /\ t.pc = "raise"
          /\ t.error # None
          /\ t.li = call.li
          /\ t.ecalls = call.ecalls
          /\ t.ecalls = IF call.reprompt THEN 2 ELSE 1
          /\ t.attempt = 0

(* The answer to the re-prompt of the second layer did not parse. *)
C32_Witness ==
    /\ ProviderCall /\ call.at = "extract" /\ call.resp.kind = "malformed"
    /\ call.reprompt /\ call.li = 2
    /\ tasks[call.tid].pc = "raise"
    /\ tasks[call.tid].ecalls = 2


(* C34: an expansion call through the OpenAI provider that raised is        *)
(* followed, below the ceiling of 3 attempts, by the sleep before the next  *)
(* attempt, and the generation has not ended.                               *)
C34_ProviderFailureRetried ==
    (/\ ProviderCall /\ call.at = "expand" /\ call.provider = "openai"
     /\ call.resp.kind = "raise" /\ call.attempt < max_attempts) =>
       /\ tasks[call.tid].pc = "sleep"
       /\ tasks[call.tid].attempt = call.attempt


ExtractCall == call.op = "_extract_scenarios"

(* C37: the re-prompt carries the scenarios of the first answer as          *)
(* existing_scenarios; once the re-prompt is answered, the layer's scenario *)
(* list is the list of that second answer alone, and the texts requested    *)
(* for its dedup are the normalized texts of that list.                     *)
C37_RepromptAnswerReplaces ==
    ExtractCall =>
       LET t == tasks[call.tid]
       IN /\ ~call.returned =>
                /\ t.pc = "extract" /\ t.reprompt
                /\ t.existing_scenarios = call.response
          /\ (call.returned /\ call.existing_scenarios # <<>>) =>
                /\ call.out = call.response
                /\ t.pc = "scenario_embeddings" =>
                      t.requested = UniqueNorm(call.response)

(* After a first answer of "A ", the re-prompt answered "b" and "a", and    *)
(* these two are what the layer's dedup asks embeddings for.                *)
C37_Witness ==
    /\ ExtractCall /\ call.returned
    /\ call.existing_scenarios = << <<"A", " ">> >>
    /\ call.response = << <<"b">>, <<"a">> >>
    /\ tasks[call.tid].pc = "scenario_embeddings"
    /\ tasks[call.tid].requested = {<<"b">>, <<"a">>}

----------------------------------------------------------------------------
(* C33: a single-feature generation that failed on malformed model output  *)
(* is answered with 502, whatever the text the model returned.              *)
C33_MalformedIsGatewayError ==
    (call.op = "generate_test_cases_with_ai" /\ call.exc.cause = "malformed") =>
       call.status = 502

----------------------------------------------------------------------------
OllamaCall == call.op = "OllamaProvider.generate_test_cases"

Transient == {"RequestError", "HTTPStatusError"}

(* The posts and sleeps of a call that makes n attempts with the waits      *)
(* claimed: 1 s after the first failure, 2 s after the second.              *)
ClaimedEvents(n) ==
    SubSeq(<<[ev |-> "post", attempt |-> 1], [ev |-> "sleep", seconds |-> 1],
             [ev |-> "post", attempt |-> 2], [ev |-> "sleep", seconds |-> 2],
             [ev |-> "post", attempt |-> 3]>>, 1, 2 * n - 1)

(* C35: one generate call of the Ollama provider posts at most 3 times; it  *)
(* goes on to the next attempt only after a network or HTTP-status failure, *)
(* waiting 1 s and then 2 s; it returns on the first attempt that succeeds, *)
(* and after a third failure it raises that failure without waiting.        *)
C35_OllamaRetries ==
    OllamaCall =>
       LET r == call.result
           n == Cardinality({k \in 1..Len(r.events) : r.events[k].ev = "post"})
       IN /\ n \in 1..3
          /\ r.events = ClaimedEvents(n)
          /\ \A k \in 1..(n - 1) : call.outcomes[k] \in Transient
          /\ n < 3 => call.outcomes[n] \notin Transient
          /\ call.outcomes[n] \in {"ok", "ok_text"} =>
                (r.out = call.outcomes[n] /\ r.raised = None)
          /\ call.outcomes[n] \in Transient =>
                (n = 3 /\ r.raised = call.outcomes[3] /\ r.out = None)

(* Three failures, the last of another kind than the first two: two waits   *)
(* and the last failure raised.                                             *)
C35_Witness ==
    /\ OllamaCall
    /\ call.outcomes[1] = "RequestError" /\ call.outcomes[2] = "RequestError"
    /\ call.outcomes[3] = "HTTPStatusError"
    /\ Len(call.result.events) = 5
    /\ call.result.events[4] = [ev |-> "sleep", seconds |-> 2]
    /\ call.result.raised = "HTTPStatusError"

----------------------------------------------------------------------------
(* One batch of one feature, started with or without a model id, and       *)
(* retries that name a provider or none.                                    *)
RetryModelIds == {None, "gpt-4o", "llama3.2:3b"}

NamedProviders == {None, "ollama", "openai"}

NextRetry ==
    \/ \E model_id \in RetryModelIds, configs \in OneFeatureLists :
          batch_store = <<>> /\ StartBatch(None, model_id, configs)
    \/ \E b \in 1..Len(batch_store) : RunAll(b)
    \/ \E tid \in Awaiting({"created"}) : RunOneFeature(tid)
    \/ \E b \in 1..Len(batch_store) : RunAllDone(b)
    \/ \E b \in 1..Len(batch_store), provider \in NamedProviders :
          RetryBatchFeatureCalled(b, 1, provider)
    \/ Pipeline(BatchResponses, FALSE, BatchSimProfiles)

SpecRetry == Init /\ [][NextRetry]_vars

(* C36: the re-run retry_batch_feature starts goes through the provider     *)
(* named in the call, or through the batch's provider when none is named:   *)
(* its first provider call is made through that provider, or it has failed  *)
(* with the error of building that provider.                                *)
C36_RetryUsesNamedProvider ==
    call.op = "retry_batch_feature" =>
       LET t == tasks[call.tid]
           prov == IF call.provider # None THEN call.provider
                   ELSE batch_store[call.batch_id].provider
           expected == get_provider(prov, openai_api_key)
       IN IF expected.ok THEN t.pc = "extract" /\ t.provider = expected.provider
          ELSE t.pc = "done" /\ t.error = expected.error

----------------------------------------------------------------------------
(* C38: in every state, a failed feature has no items and has an error      *)
(* recorded, a completed feature has no error recorded, and a pending       *)
(* feature has no items and no error.                                       *)
C38_FeatureRecordConsistent ==
    \A p \in AllFeatures :
       LET fr == Feature(p[1], p[2])
       IN /\ fr.status \in {"pending", "generating", "completed", "failed"}
          /\ fr.status = "failed" => (fr.items = <<>> /\ fr.error # None)
          /\ fr.status = "completed" => fr.error = None
          /\ fr.status = "pending" => (fr.items = <<>> /\ fr.error = None)

(* After a retry and a delete: one feature of a batch is failed, the other  *)
(* completed with the one case the delete left it.                          *)
C38_Witness ==
    /\ retries = 1 /\ deletes = 1
    /\ \E b \in 1..Len(batch_store) :
          /\ Len(batch_store[b].features) = 2
          /\ Feature(b, 1).status = "failed" /\ Feature(b, 1).error # None
          /\ Feature(b, 2).status = "completed" /\ Len(Feature(b, 2).items) = 1
          /\ \E tid \in TaskIds : tasks[tid].kind = "retry" /\ tasks[tid].b = b

----------------------------------------------------------------------------
(* C39: in every state, each test case in the items of a batch feature is   *)
(* in the store, under its id.                                              *)
C39_ItemsInStore ==
    \A p \in AllFeatures :
       \A k \in 1..Len(Feature(p[1], p[2]).items) :
          \E tc \in store :
             tc.id = Feature(p[1], p[2]).items[k].id /\ tc = Feature(p[1], p[2]).items[k]

(* A feature completed with two cases, one was deleted, and the retry       *)
(* completed with two new ones: the store holds three cases, the feature    *)
(* lists the two of the re-run.                                             *)
C39_Witness ==
    /\ retries = 1 /\ deletes = 1
    /\ Cardinality(store) = 3
    /\ \E b \in 1..Len(batch_store) :
          /\ Len(batch_store[b].features) = 1
          /\ Feature(b, 1).status = "completed"
          /\ Len(Feature(b, 1).items) = 2
          /\ \A k \in 1..2 : Feature(b, 1).items[k] \in store

----------------------------------------------------------------------------
(* A batch that is never retried.  The event loop runs every scheduled     *)
(* callback, every provider and embeddings call returns or raises, and      *)
(* every sleep ends: the steps of the coordinator and of the generations    *)
(* are taken when they stay possible.                                       *)
Scheduled ==
    \/ \E b \in 1..Len(batch_store) : RunAll(b)
    \/ \E tid \in Awaiting({"created"}) : RunOneFeature(tid)
    \/ \E b \in 1..Len(batch_store) : RunAllDone(b)

Answered == Pipeline(BatchResponses, FALSE, BatchSimProfiles)

NextLive ==
    \/ \E provider \in BatchProviders, model_id \in BatchModelIds, configs \in ConfigLists :
          batch_store = <<>> /\ StartBatch(provider, model_id, configs)
    \/ \E b \in 1..Len(batch_store) : RunAll(b)
    \/ \E tid \in Awaiting({"created"}) : RunOneFeature(tid)
    \/ \E b \in 1..Len(batch_store) : RunAllDone(b)
    \/ Pipeline(BatchResponses, FALSE, BatchSimProfiles)

SpecLive == Init /\ [][NextLive]_vars /\ WF_vars(Scheduled) /\ WF_vars(Answered)

(* No feature of batch b is pending or generating, and the batch status is  *)
(* completed when every feature is and partial otherwise. *)
Resolved(b) ==
    /\ b <= Len(batch_store)
    /\ \A f \in 1..Len(batch_store[b].features) :
          Feature(b, f).status \in {"completed", "failed"}
    /\ batch_store[b].status =
          IF \A f \in 1..Len(batch_store[b].features) : Feature(b, f).status = "completed"
          THEN "completed" ELSE "partial"

(* C40: every batch started gets to a state where no feature is pending or  *)
(* generating and its status is completed (every feature completed) or      *)
(* partial (some feature failed), and stays so: from some point on, every   *)
(* batch there is has resolved.                                             *)
C40_BatchResolves ==
    <>[](\A b \in 1..Len(batch_store) : Resolved(b))

(* A batch of two features resolved to partial: its run_all is over, one   *)
(* feature failed and the other completed.                                  *)
C40_Witness ==
    \E b \in 1..Len(batch_store) :
       /\ run_all[b] = "done"
       /\ Resolved(b)
       /\ Len(batch_store[b].features) = 2
       /\ Feature(b, 1).status = "completed" /\ Feature(b, 2).status = "failed"
       /\ batch_store[b].status = "partial"

====
